---- MODULE Spec2Model ----
(***************************************************************************)
(* Verification model of markdown-diff-preview.                            *)
(*                                                                         *)
(* Part 1: parseDiff (src/src/core/diffParser.ts:24-148), the unified-diff *)
(* parser, as a state machine that consumes the diff text line by line.    *)
(*                                                                         *)
(* Part 2: renderMarkdownWithDiff (src/src/core/diffParser.ts:329-1203)    *)
(* with the comment parser (src/src/markdownRenderer.ts:470-604), as a     *)
(* state machine that renders the document line by line.                   *)
(*                                                                         *)
(* Text is modelled as a sequence of tokens.  A token is a one-character   *)
(* string, or a whole comment marker "<!--comment:N-->" (the only thing    *)
(* the marker regular expressions of the program can match), or, in the    *)
(* rendered HTML, a fragment of block-level markup such as "<p" or         *)
(* "</p>".  Everything parseInline produces is kept character by           *)
(* character, because the program searches it with indexOf and includes.   *)
(***************************************************************************)
EXTENDS Integers, Sequences, FiniteSets, TLC

VARIABLES
    pc,                 \* "scan": parseDiff is in its loop; "done": it returned
    diffInput,          \* the lines of diffOutput.split('\n') consumed so far
    hunks,              \* hunks: DiffHunk[]  (currentHunk is the last one)
    addedLines,         \* addedLines: Set<number>
    removedLines,       \* removedLines: Map<number, string>
    newLineNumber,
    oldLineNumber,
    pendingRemovals,
    removalInsertPoint

VARIABLES
    pcR,                \* "render": in the line loop; "done": returned
    docLines,           \* markdown.split('\n')
    diff,               \* the FileDiff argument (or null)
    showLineNumbers,
    comments,           \* commentsData || parseCommentsData(markdown)
    idx,                \* i, the loop index (0-based)
    html,
    commentThreadsHtml,
    processedComments,
    inCodeBlock,
    codeBlockContent,
    codeBlockStartLine,
    inList,
    listItems,
    inTable,
    tableRows,
    tableStartLine,
    inCommentsDataBlock

VARIABLES
    pcU,                \* "idle"; "imported": _updateComment awaits the import;
                        \* "done": it returned; "merged": a comment was merged
    document,           \* this._document.getText()
    markdownContent,    \* the text _updateComment read
    request,            \* its arguments commentId, type and content
    parsedData,         \* commentsData as parseCommentsData(markdownContent)
                        \* returned it
    message,            \* the message shown to the user, "none" without one
    edits               \* the number of edits applied to the document

VARIABLES
    pcG,                \* "idle"; "called": getGitDiff was called; "diffing",
                        \* "unstaged", "parsing": it awaits git diff against
                        \* the base, the unstaged git diff, runs parseDiff;
                        \* "returned"
    workspaceFolder,    \* the document lies in a workspace folder
    lineCount,          \* document.lineCount, 0 before it is read
    isTracked,          \* what isFileTracked resolved to, "unknown" before
    stdout,             \* the output of git diff <diffBase>: "unread",
                        \* "blank", "text", or "error" when exec rejected
    unstagedDiff,       \* the output of git diff, likewise
    fileDiff            \* the value getGitDiff resolved to

VARIABLES
    updates,            \* the _update calls started so far, in start order:
                        \* where each one stands and what it has read
    world,              \* the version of the document and of the git state
    webviewHtml         \* this._panel.webview.html: the call that wrote it
                        \* and the versions it was computed from

VARIABLES
    pcL,                \* "idle"; "loop": buildNestedList runs; "returned":
                        \* the outermost call has returned to flushList
    indents,            \* item.indent of every item of listItems
    frames,             \* the calls of buildNestedList that have not
                        \* returned, outermost first: startIdx,
                        \* currentIndent and i of each
    endIdx              \* result.endIdx of the outermost call

diffVars == << pc, diffInput, hunks, addedLines, removedLines, newLineNumber,
               oldLineNumber, pendingRemovals, removalInsertPoint >>

renderVars == << pcR, docLines, diff, showLineNumbers, comments, idx, html,
                 commentThreadsHtml, processedComments, inCodeBlock,
                 codeBlockContent, codeBlockStartLine, inList, listItems,
                 inTable, tableRows, tableStartLine, inCommentsDataBlock >>

ledgerVars == << pcU, document, markdownContent, request, parsedData, message,
                 edits >>

gitVars == << pcG, workspaceFolder, lineCount, isTracked, stdout, unstagedDiff,
              fileDiff >>

panelVars == << updates, world, webviewHtml >>

nestVars == << pcL, indents, frames, endIdx >>

vars == << diffVars, renderVars, ledgerVars, gitVars, panelVars, nestVars >>

\* no _updateComment has been called; the document is not looked at
UpdateIdle ==
    /\ pcU = "idle"
    /\ document = <<>>
    /\ markdownContent = <<>>
    /\ request = [commentId |-> 0, type |-> "none", content |-> <<>>]
    /\ parsedData = [isNull |-> TRUE, json |-> [t |-> "null"]]
    /\ message = "none"
    /\ edits = 0

\* resolved for a FileDiff | null that is null
NullFileDiff ==
    [isNull |-> TRUE, isNew |-> FALSE, hunks |-> <<>>, addedLines |-> {},
     removedLines |-> <<>>]

\* getGitDiff has not been called
GitIdle ==
    /\ pcG = "idle"
    /\ workspaceFolder = FALSE
    /\ lineCount = 0
    /\ isTracked = "unknown"
    /\ stdout = "unread"
    /\ unstagedDiff = "unread"
    /\ fileDiff = NullFileDiff

\* the preview panel has not started an _update
PanelIdle ==
    /\ updates = <<>>
    /\ world = 0
    /\ webviewHtml = [by |-> 0, diff |-> 0, text |-> 0]

\* flushList has not called buildNestedList
NestIdle ==
    /\ pcL = "idle"
    /\ indents = <<>>
    /\ frames = <<>>
    /\ endIdx = 0

----------------------------------------------------------------------------
(* Bounds of the model *)

MaxDiffLines == 5       \* longest diff text, in lines
MaxStart == 2           \* largest start value a hunk header declares
MaxGitDiffLines == 3    \* longest diff text getGitDiff hands to parseDiff

----------------------------------------------------------------------------
(* Text helpers *)

Marker1 == "<!--comment:1-->"

\* /<!--comment:\d+-->/ matches exactly the marker tokens
IsMarker(tok) == tok \in {Marker1, "<!--comment:2-->", "<!--comment:12-->"}

NotMarker(tok) == ~IsMarker(tok)

IsSpace(tok) == tok \in {" ", "\t"}

RECURSIVE TrimStart(_)
TrimStart(s) ==
    IF s # <<>> /\ IsSpace(Head(s)) THEN TrimStart(Tail(s)) ELSE s

RECURSIVE TrimEnd(_)
TrimEnd(s) ==
    IF s # <<>> /\ IsSpace(s[Len(s)]) THEN TrimEnd(SubSeq(s, 1, Len(s) - 1)) ELSE s

\* String.prototype.trim
Trim(s) == TrimEnd(TrimStart(s))

\* String.prototype.startsWith
StartsWith(s, prefix) ==
    /\ Len(s) >= Len(prefix)
    /\ SubSeq(s, 1, Len(prefix)) = prefix

\* Array.prototype.join('\n')
RECURSIVE JoinLines(_)
JoinLines(ss) ==
    IF ss = <<>> THEN <<>>
    ELSE IF Len(ss) = 1 THEN ss[1]
    ELSE ss[1] \o <<"\n">> \o JoinLines(Tail(ss))

\* the elements of a sequence
Range(s) == { s[k] : k \in 1..Len(s) }

\* Map.prototype.set
MapSet(m, k, v) == (k :> v) @@ m

EmptyMap == <<>>

\* diff === null
NullDiff == [isNull |-> TRUE, addedLines |-> {}, removedLines |-> EmptyMap]

\* comments === null
NullComments == [isNull |-> TRUE, data |-> EmptyMap]

\* renderMarkdownWithDiff is not running
RenderIdle ==
    /\ pcR = "idle"
    /\ docLines = <<>>
    /\ diff = NullDiff
    /\ showLineNumbers = FALSE
    /\ comments = NullComments
    /\ idx = 0
    /\ html = <<>>
    /\ commentThreadsHtml = <<>>
    /\ processedComments = {}
    /\ inCodeBlock = FALSE
    /\ codeBlockContent = <<>>
    /\ codeBlockStartLine = 0
    /\ inList = FALSE
    /\ listItems = <<>>
    /\ inTable = FALSE
    /\ tableRows = <<>>
    /\ tableStartLine = 0
    /\ inCommentsDataBlock = FALSE

----------------------------------------------------------------------------
(* parseDiff: helpers *)

stripCommentMarkers(line) == Trim(SelectSeq(line, NotMarker))

isOnlyCommentMarkerDiff(oldLine, newLine) ==
    stripCommentMarkers(oldLine) = stripCommentMarkers(newLine)

\* A line of the diff text.  A line that matches the hunk-header regular
\* expression carries the four numbers the expression captures.
TextLine(t) ==
    [hunk |-> FALSE, text |-> t, oldStart |-> 0, oldLines |-> 0,
     newStart |-> 0, newLines |-> 0]

HeaderLine(o, ol, n, nl) ==
    [hunk |-> TRUE, text |-> <<"@", "@">>, oldStart |-> o, oldLines |-> ol,
     newStart |-> n, newLines |-> nl]

\* '@@ -1,3 +0,0 @@', '@@ -1,2 +1,3 @@', '@@ -2,2 +2,3 @@', ...
HunkHeaders ==
    { HeaderLine(IF n = 0 THEN 1 ELSE n, IF n = 0 THEN 3 ELSE 2,
                 n, IF n = 0 THEN 0 ELSE 3) : n \in 0..MaxStart }

DiffTexts ==
    { <<"+", "a">>, <<"+", "a", Marker1>>,
      <<"-", "a">>, <<"-", "b">>,
      <<" ", "a">>,
      <<>>,
      <<"+", "+", "+", " ", "b">> }

DiffLineSet == HunkHeaders \cup { TextLine(t) : t \in DiffTexts }

hunkMatch(line) == line.hunk

isAddedLine(line) ==
    StartsWith(line.text, <<"+">>) /\ ~StartsWith(line.text, <<"+", "+", "+">>)

isRemovedLine(line) ==
    StartsWith(line.text, <<"-">>) /\ ~StartsWith(line.text, <<"-", "-", "-">>)

isContextLine(line) ==
    StartsWith(line.text, <<" ">>) \/ line.text = <<>>

NewHunk(line) ==
    [oldStart |-> line.oldStart, oldLines |-> line.oldLines,
     newStart |-> line.newStart, newLines |-> line.newLines,
     changes |-> <<>>]

AddedChangeLate(n, content) ==
    [type |-> "added", lineNumber |-> n + 1, oldLineNumber |-> 0, content |-> content]

\* oldLineNumber 0 stands for the field being absent
AddedChange(n, content) ==
    [type |-> "added", lineNumber |-> n, oldLineNumber |-> 0, content |-> content]

RemovedChange(n, o, content) ==
    [type |-> "removed", lineNumber |-> n, oldLineNumber |-> o, content |-> content]

ContextChangeOld(n, o, content) ==
    [type |-> "context", lineNumber |-> o, oldLineNumber |-> o, content |-> content]

ContextChange(n, o, content) ==
    [type |-> "context", lineNumber |-> n, oldLineNumber |-> o, content |-> content]

\* currentHunk.changes.push(c)
PushChange(hs, c) ==
    [hs EXCEPT ![Len(hs)].changes = Append(@, c)]

----------------------------------------------------------------------------
(* parseDiff: one action per branch of the loop body *)

InitParseDiff ==
    /\ pc = "scan"
    /\ diffInput = <<>>
    /\ hunks = <<>>
    /\ addedLines = {}
    /\ removedLines = EmptyMap
    /\ newLineNumber = 0
    /\ oldLineNumber = 0
    /\ pendingRemovals = <<>>
    /\ removalInsertPoint = 0
    /\ RenderIdle
    /\ UpdateIdle
    /\ GitIdle
    /\ PanelIdle
    /\ NestIdle

Reading(line) ==
    /\ pc = "scan"
    /\ Len(diffInput) < (IF pcG = "parsing" THEN MaxGitDiffLines ELSE MaxDiffLines)
    /\ diffInput' = Append(diffInput, line)
    /\ pc' = pc
    /\ UNCHANGED << renderVars, ledgerVars, gitVars, panelVars, nestVars >>

HunkHeader(line) ==
    /\ Reading(line)
    /\ hunkMatch(line)
    /\ IF pendingRemovals # <<>> /\ removalInsertPoint > 0
       THEN /\ removedLines' = MapSet(removedLines, removalInsertPoint,
                                      JoinLines(pendingRemovals))
            /\ pendingRemovals' = <<>>
       ELSE UNCHANGED << removedLines, pendingRemovals >>
    /\ hunks' = Append(hunks, NewHunk(line))
    /\ newLineNumber' = line.newStart
    /\ oldLineNumber' = line.oldStart
    /\ removalInsertPoint' = line.newStart
    /\ UNCHANGED addedLines

\* no branch applies: before the first hunk, or a line that is none of
\* '+', '-', ' ', '' (file headers '+++'/'---', '\ No newline ...')
SkippedLine(line) ==
    /\ Reading(line)
    /\ ~hunkMatch(line)
    /\ \/ hunks = <<>>
       \/ ~isAddedLine(line) /\ ~isRemovedLine(line) /\ ~isContextLine(line)
    /\ UNCHANGED << hunks, addedLines, removedLines, newLineNumber,
                    oldLineNumber, pendingRemovals, removalInsertPoint >>

AddedLine(line) ==
    /\ Reading(line)
    /\ ~hunkMatch(line)
    /\ hunks # <<>>
    /\ isAddedLine(line)
    /\ LET content == Tail(line.text)
           isCommentOnlyChange ==
               /\ pendingRemovals # <<>>
               /\ isOnlyCommentMarkerDiff(pendingRemovals[Len(pendingRemovals)], content)
       IN  IF isCommentOnlyChange
           THEN /\ pendingRemovals' = SubSeq(pendingRemovals, 1, Len(pendingRemovals) - 1)
                /\ hunks' = PushChange(hunks,
                                ContextChange(newLineNumber, oldLineNumber,
                                              stripCommentMarkers(content)))
                /\ oldLineNumber' = oldLineNumber + 1
                /\ removalInsertPoint' = newLineNumber + 1
                /\ UNCHANGED << addedLines, removedLines >>
           ELSE /\ hunks' = PushChange(hunks, AddedChange(newLineNumber, content))
                /\ addedLines' = addedLines \cup {newLineNumber}
                /\ IF pendingRemovals # <<>>
                   THEN /\ removedLines' = MapSet(removedLines, removalInsertPoint,
                                                  JoinLines(pendingRemovals))
                        /\ pendingRemovals' = <<>>
                   ELSE UNCHANGED << removedLines, pendingRemovals >>
                /\ removalInsertPoint' = newLineNumber + 1
                /\ UNCHANGED oldLineNumber
    /\ newLineNumber' = newLineNumber + 1

RemovedLine(line) ==
    /\ Reading(line)
    /\ ~hunkMatch(line)
    /\ hunks # <<>>
    /\ ~isAddedLine(line)
    /\ isRemovedLine(line)
    /\ LET content == Tail(line.text)
       IN  /\ hunks' = PushChange(hunks,
                           RemovedChange(newLineNumber, oldLineNumber, content))
           /\ pendingRemovals' = Append(pendingRemovals, content)
    /\ oldLineNumber' = oldLineNumber + 1
    /\ UNCHANGED << addedLines, removedLines, newLineNumber, removalInsertPoint >>

ContextLine(line) ==
    /\ Reading(line)
    /\ ~hunkMatch(line)
    /\ hunks # <<>>
    /\ ~isAddedLine(line)
    /\ ~isRemovedLine(line)
    /\ isContextLine(line)
    /\ IF pendingRemovals # <<>>
       THEN /\ removedLines' = MapSet(removedLines, removalInsertPoint,
                                      JoinLines(pendingRemovals))
            /\ pendingRemovals' = <<>>
       ELSE UNCHANGED << removedLines, pendingRemovals >>
    /\ LET content == IF StartsWith(line.text, <<" ">>) THEN Tail(line.text)
                      ELSE line.text
       IN  hunks' = PushChange(hunks,
                        ContextChange(newLineNumber, oldLineNumber, content))
    /\ newLineNumber' = newLineNumber + 1
    /\ oldLineNumber' = oldLineNumber + 1
    /\ removalInsertPoint' = newLineNumber + 1
    /\ UNCHANGED addedLines

\* end of the loop: the final flush and the return
EndOfInput ==
    /\ pc = "scan"
    /\ pc' = "done"
    /\ IF pendingRemovals # <<>> /\ removalInsertPoint > 0
       THEN removedLines' = MapSet(removedLines, removalInsertPoint,
                                   JoinLines(pendingRemovals))
       ELSE UNCHANGED removedLines
    /\ UNCHANGED << diffInput, hunks, addedLines, newLineNumber, oldLineNumber,
                    pendingRemovals, removalInsertPoint >>
    /\ UNCHANGED << renderVars, ledgerVars, gitVars, panelVars, nestVars >>

NextParseDiff ==
    \/ \E line \in DiffLineSet :
          \/ HunkHeader(line)
          \/ SkippedLine(line)
          \/ AddedLine(line)
          \/ RemovedLine(line)
          \/ ContextLine(line)
    \/ EndOfInput

SpecParseDiff == InitParseDiff /\ [][NextParseDiff]_vars

----------------------------------------------------------------------------
(* Properties of parseDiff *)

\* positions <<h, i>> of the DiffChanges held by the hunks
ChangePositions ==
    { <<h, i>> : h \in 1..Len(hunks), i \in 1..MaxDiffLines } \cap
    UNION { { <<h, i>> : i \in 1..Len(hunks[h].changes) } : h \in 1..Len(hunks) }

ChangeAt(p) == hunks[p[1]].changes[p[2]]

\* where line number n is recorded as 'added'
AddedAt(n) ==
    { p \in ChangePositions :
        ChangeAt(p).type = "added" /\ ChangeAt(p).lineNumber = n }

AddedNumbers ==
    addedLines \cup
    { ChangeAt(p).lineNumber : p \in { q \in ChangePositions : ChangeAt(q).type = "added" } }

\* every hunk starts after the new-file lines of the hunks before it
HunksAscending ==
    \A p \in ChangePositions : \A h \in 1..Len(hunks) :
        (p[1] < h /\ ChangeAt(p).type # "removed")
            => ChangeAt(p).lineNumber < hunks[h].newStart

\* C1 as claimed: n is in addedLines iff some hunk holds an 'added' change
\* with lineNumber n, and each such n is recorded as 'added' exactly once,
\* for every diff text.
C1_AddedExactlyOnce ==
    \A n \in AddedNumbers :
        /\ n \in addedLines <=> AddedAt(n) # {}
        /\ Cardinality(AddedAt(n)) = 1

\* C1: n is in addedLines iff some hunk holds an 'added' change with
\* lineNumber n; within one hunk n is recorded as 'added' at most once; and
\* when the hunks of the diff do not overlap (each hunk starts after the
\* new-file lines of the hunks before it, as in every diff git writes) n is
\* recorded as 'added' in exactly one hunk.
C1_AddedOnceInAscendingHunks ==
    \A n \in AddedNumbers :
        /\ n \in addedLines <=> AddedAt(n) # {}
        /\ \A h \in 1..Len(hunks) :
               Cardinality({ p \in AddedAt(n) : p[1] = h }) <= 1
        /\ HunksAscending => Cardinality(AddedAt(n)) = 1

\* two hunks that do not overlap, each with an addition, fully parsed
C1_Witness ==
    /\ pc = "done"
    /\ Len(hunks) = 2
    /\ HunksAscending
    /\ \A h \in 1..2 : \E p \in ChangePositions :
           p[1] = h /\ ChangeAt(p).type = "added"

\* The diff text read so far: index of the hunk header that line k belongs to
\* (0 when no header precedes it)
HeaderBefore(k) ==
    LET hs == { j \in 1..(k - 1) : diffInput[j].hunk }
    IN  IF hs = {} THEN 0 ELSE CHOOSE j \in hs : \A m \in hs : m <= j

\* line k of the diff text is a '-' line of a hunk body
IsMinusLine(k) ==
    /\ ~diffInput[k].hunk
    /\ HeaderBefore(k) > 0
    /\ StartsWith(diffInput[k].text, <<"-">>)
    /\ ~StartsWith(diffInput[k].text, <<"-", "-", "-">>)

\* line k of the diff text is a line of the new file: '+', ' ' or ''
IsNewFileLine(k) ==
    /\ ~diffInput[k].hunk
    /\ HeaderBefore(k) > 0
    /\ \/ /\ StartsWith(diffInput[k].text, <<"+">>)
          /\ ~StartsWith(diffInput[k].text, <<"+", "+", "+">>)
       \/ StartsWith(diffInput[k].text, <<" ">>)
       \/ diffInput[k].text = <<>>

\* the new-file line number of line k of the diff text, counted from the
\* hunk header
NewFileNumber(k) ==
    diffInput[HeaderBefore(k)].newStart +
    Cardinality({ m \in (HeaderBefore(k) + 1)..(k - 1) : IsNewFileLine(m) })

\* first line of the run of '-' lines that ends right before line k
RunStart(k) ==
    CHOOSE j \in 1..(k - 1) :
        /\ \A m \in j..(k - 1) : IsMinusLine(m)
        /\ j = 1 \/ ~IsMinusLine(j - 1)

RunBefore(k) ==
    [m \in 1..(k - RunStart(k)) |-> Tail(diffInput[RunStart(k) + m - 1].text)]

\* C2: right after parseDiff has processed the first '+' or context line
\* that follows a run of '-' lines of a hunk, removedLines holds the run as
\* one entry: its key is the new-file line number of that line and its
\* value the removed contents joined by newline in diff order.  (A '+' line
\* that repeats the last removed line up to comment markers is the unchanged
\* line itself, so that last line is not counted as removed content.)  And a
\* '-oldtext' followed directly by a context line yields exactly one entry,
\* keyed at the context line's number.
C2_RunRecordedAtNextLine ==
    LET k == Len(diffInput)
    IN  (pc = "scan" /\ k >= 2 /\ IsNewFileLine(k) /\ IsMinusLine(k - 1)) =>
          LET run == RunBefore(k)
              plus == StartsWith(diffInput[k].text, <<"+">>)
              same == plus /\ isOnlyCommentMarkerDiff(run[Len(run)],
                                                      Tail(diffInput[k].text))
              shown == IF same THEN SubSeq(run, 1, Len(run) - 1) ELSE run
              n == NewFileNumber(k)
          IN  /\ shown # <<>> =>
                    /\ n \in DOMAIN removedLines
                    /\ removedLines[n] = JoinLines(shown)
              /\ (k = 3 /\ diffInput[1].hunk /\ ~plus) =>
                    DOMAIN removedLines = {n}

\* C3: every added or context DiffChange carries lineNumber = its hunk's
\* newStart + the number of added and context changes recorded before it in
\* the same hunk (so the counter restarts at every hunk header); and the
\* diff '@@ -1,2 +1,3 @@', one context line, one '+' line gives
\* addedLines = {2} and an empty removedLines.
C3_LineNumbersCountFromNewStart ==
    /\ \A p \in ChangePositions :
          ChangeAt(p).type \in {"added", "context"} =>
             ChangeAt(p).lineNumber =
                hunks[p[1]].newStart +
                Cardinality({ i \in 1..(p[2] - 1) :
                                hunks[p[1]].changes[i].type \in {"added", "context"} })
    /\ ( /\ pc = "done"
         /\ diffInput = << HeaderLine(1, 2, 1, 3), TextLine(<<" ", "a">>),
                           TextLine(<<"+", "a">>) >> )
       => (addedLines = {2} /\ DOMAIN removedLines = {})

\* a second hunk with another start value, whose counters restarted: a
\* removal, a context line and then an addition numbered from its header
C3_Witness ==
    /\ pc = "done"
    /\ Len(hunks) = 2
    /\ hunks[1].newStart # hunks[2].newStart
    /\ Len(hunks[2].changes) = 3
    /\ hunks[2].changes[1].type = "removed"
    /\ hunks[2].changes[2].type = "context"
    /\ hunks[2].changes[3].type = "added"
    /\ hunks[2].changes[3].lineNumber = hunks[2].newStart + 1

\* C4: every member of addedLines and every key of removedLines is a line
\* number >= 1, for every diff text (hunks declaring new start 0 included).
C4_LineNumbersAtLeastOne ==
    /\ \A n \in addedLines : n >= 1
    /\ \A k \in DOMAIN removedLines : k >= 1

\* C5: when the diff text ends while removals are pending, they are recorded
\* in removedLines before parseDiff returns.
C5_TrailingRemovalsRecorded ==
    (pc = "done" /\ pendingRemovals # <<>>) =>
        \E k \in DOMAIN removedLines : removedLines[k] = JoinLines(pendingRemovals)

----------------------------------------------------------------------------
(***************************************************************************)
(* Part 2: renderMarkdownWithDiff and the comment parser.                  *)
(***************************************************************************)

MaxDocLines == 3        \* longest document, in lines

\* ids a comment marker or a ledger entry may carry
CommentIds == {1, 2, 12}

MarkerToken(id) ==
    CASE id = 1 -> Marker1
      [] id = 2 -> "<!--comment:2-->"
      [] id = 12 -> "<!--comment:12-->"

\* parseInt(match[1], 10) of a marker
MarkerId(tok) == CHOOSE id \in CommentIds : MarkerToken(id) = tok

\* String(n): the decimal digits of n
RECURSIVE Digits(_)
Digits(n) ==
    IF n < 10 THEN << ToString(n) >>
    ELSE Digits(n \div 10) \o << ToString(n % 10) >>

\* the characters of a string literal
Text(str) == [k \in 1..Len(str) |-> SubSeq(str, k, k)]

\* the characters of a token
Chars(tok) ==
    IF IsMarker(tok)
    THEN Text("<!--comment:") \o Digits(MarkerId(tok)) \o Text("-->")
    ELSE << tok >>

\* the characters of a text
RECURSIVE Explode(_)
Explode(s) ==
    IF s = <<>> THEN <<>>
    ELSE IF Len(s) = 1 THEN Chars(s[1])
    ELSE Explode(SubSeq(s, 1, Len(s) \div 2))
         \o Explode(SubSeq(s, Len(s) \div 2 + 1, Len(s)))

\* pat occurs in h at position p (1-based)
MatchAt(h, pat, p) ==
    /\ p >= 1
    /\ p + Len(pat) - 1 <= Len(h)
    /\ \A k \in 1..Len(pat) : h[p + k - 1] = pat[k]

Occurrences(h, pat) ==
    { p \in 1..(Len(h) - Len(pat) + 1) : MatchAt(h, pat, p) }

SetMin(S) == CHOOSE x \in S : \A y \in S : x <= y

\* String.prototype.indexOf, 1-based; 0 when pat does not occur
IndexOf(h, pat) ==
    IF Occurrences(h, pat) = {} THEN 0 ELSE SetMin(Occurrences(h, pat))

\* String.prototype.includes
Includes(h, pat) == Occurrences(h, pat) # {}

\* s.slice(from) with a 1-based from
Drop(s, from) == SubSeq(s, from, Len(s))

\* the opening of a badge, up to its status
BadgeOpen == Text("<span class=\"comment-badge comment-status-")

\* between the status of a badge and its comment id
BadgeIdAttr == Text("\" data-comment-id=\"")

\* between the comment id of a badge and its handler
BadgeOnclick == Text("\" onclick=\"toggleCommentThread(")

\* the end of a badge
BadgeClose == Text("]</span>")

\* the text that identifies a thread panel, before the comment id
CommentThreadPrefix == Text("comment-thread-")

\* escapeHtml: the five replacements, one character at a time
EscapeChar(c) ==
    CASE c = "&" -> Text("&amp;")
      [] c = "<" -> Text("&lt;")
      [] c = ">" -> Text("&gt;")
      [] c = "\"" -> Text("&quot;")
      [] c = "'" -> Text("&#039;")
      [] OTHER -> << c >>

RECURSIVE EscapeChars(_)
EscapeChars(s) ==
    IF s = <<>> THEN <<>> ELSE EscapeChar(Head(s)) \o EscapeChars(Tail(s))

escapeHtml(text) == EscapeChars(Explode(text))

\* result.replace(/D(.+?)D/g, 'open$1close') for a delimiter D
RECURSIVE ReplaceDelimited(_, _, _, _)
ReplaceDelimited(s, d, open, close) ==
    IF s = <<>> THEN <<>>
    ELSE IF StartsWith(s, d)
    THEN LET rest == Drop(s, Len(d) + 1)
             qs == { q \in 2..Len(rest) : MatchAt(rest, d, q) }
         IN  IF qs = {}
             THEN << Head(s) >> \o ReplaceDelimited(Tail(s), d, open, close)
             ELSE open \o SubSeq(rest, 1, SetMin(qs) - 1) \o close
                  \o ReplaceDelimited(Drop(rest, SetMin(qs) + Len(d)), d, open, close)
    ELSE << Head(s) >> \o ReplaceDelimited(Tail(s), d, open, close)

\* position of the first c in s at or after from; 0 when there is none
FirstAt(s, c, from) ==
    LET ps == { p \in from..Len(s) : s[p] = c }
    IN  IF ps = {} THEN 0 ELSE SetMin(ps)

\* the backquote character (the lexer accepts none inside a string)
Backtick == "BACKTICK"

\* result.replace of a backquoted run /B([^B]+)B/g by '<code>$1</code>'
RECURSIVE ReplaceCode(_)
ReplaceCode(s) ==
    IF s = <<>> THEN <<>>
    ELSE LET q == FirstAt(s, Backtick, 2)
         IN  IF Head(s) = Backtick /\ q > 2
             THEN Text("<code>") \o SubSeq(s, 2, q - 1) \o Text("</code>")
                  \o ReplaceCode(Drop(s, q + 1))
             ELSE << Head(s) >> \o ReplaceCode(Tail(s))

\* s, from position p on, reads [text](url) with at least minText
\* characters of text: the positions of ']' and ')' , or <<0, 0>>
BracketPair(s, p, minText) ==
    LET b == FirstAt(s, "]", p + 1)
        e == IF b = 0 THEN 0 ELSE FirstAt(s, ")", b + 2)
    IN  IF /\ p <= Len(s) /\ s[p] = "["
           /\ b >= p + 1 + minText
           /\ b + 1 <= Len(s) /\ s[b + 1] = "("
           /\ e > b + 2
        THEN << b, e >>
        ELSE << 0, 0 >>

\* result.replace(/\[([^\]]+)\]\(([^)]+)\)/g, '<a href="$2">$1</a>')
RECURSIVE ReplaceLinks(_)
ReplaceLinks(s) ==
    IF s = <<>> THEN <<>>
    ELSE LET m == BracketPair(s, 1, 1)
         IN  IF m[1] > 0
             THEN Text("<a href=\"") \o SubSeq(s, m[1] + 2, m[2] - 1) \o Text("\">")
                  \o SubSeq(s, 2, m[1] - 1) \o Text("</a>")
                  \o ReplaceLinks(Drop(s, m[2] + 1))
             ELSE << Head(s) >> \o ReplaceLinks(Tail(s))

\* result.replace(/!\[([^\]]*)\]\(([^)]+)\)/g, '<img src="$2" alt="$1" />')
RECURSIVE ReplaceImages(_)
ReplaceImages(s) ==
    IF s = <<>> THEN <<>>
    ELSE LET m == BracketPair(s, 2, 0)
         IN  IF Head(s) = "!" /\ m[1] > 0
             THEN Text("<img src=\"") \o SubSeq(s, m[1] + 2, m[2] - 1) \o Text("\" alt=\"")
                  \o SubSeq(s, 3, m[1] - 1) \o Text("\" />")
                  \o ReplaceImages(Drop(s, m[2] + 1))
             ELSE << Head(s) >> \o ReplaceImages(Tail(s))

\* a segment wrapped whether or not it is blank
WrapPlainAlways(text) ==
    IF text # <<>>
    THEN Text("<span class=\"plain-text\">") \o text \o Text("</span>")
    ELSE text

\* textBefore.trim() ? '<span class="plain-text">' + textBefore + '</span>'
\* : textBefore
WrapPlain(text) ==
    IF Trim(text) # <<>>
    THEN Text("<span class=\"plain-text\">") \o text \o Text("</span>")
    ELSE text

\* /<[^>]+>/ matches at position p: the position of its closing '>', or 0
TagEnd(h, p) ==
    LET q == FirstAt(h, ">", p + 1)
    IN  IF p <= Len(h) /\ h[p] = "<" /\ q > p + 1 THEN q ELSE 0

\* start of the first match of /<[^>]+>/ in h at or after from, or 0
NextTag(h, from) ==
    LET ps == { p \in from..Len(h) : TagEnd(h, p) > 0 }
    IN  IF ps = {} THEN 0 ELSE SetMin(ps)

\* the loop of wrapPlainTextSegments, from lastIndex on
RECURSIVE WrapSegments(_, _)
WrapSegments(h, lastIndex) ==
    LET t == NextTag(h, lastIndex)
    IN  IF t = 0
        THEN WrapPlain(Drop(h, lastIndex))
        ELSE WrapPlain(SubSeq(h, lastIndex, t - 1))
             \o SubSeq(h, t, TagEnd(h, t))
             \o WrapSegments(h, TagEnd(h, t) + 1)

wrapPlainTextSegments(h) ==
    IF NextTag(h, 1) = 0 THEN WrapPlain(h) ELSE WrapSegments(h, 1)

\* parseInline(text), no line given: markers removed, the text escaped,
\* the inline grammar substituted in the program's order, plain text wrapped
parseInline(text) ==
    wrapPlainTextSegments(
      ReplaceImages(
        ReplaceLinks(
          ReplaceCode(
            ReplaceDelimited(
              ReplaceDelimited(
                ReplaceDelimited(
                  ReplaceDelimited(
                    ReplaceDelimited(escapeHtml(SelectSeq(text, NotMarker)),
                                     <<"*", "*">>, Text("<strong>"), Text("</strong>")),
                    <<"_", "_">>, Text("<strong>"), Text("</strong>")),
                  <<"*">>, Text("<em>"), Text("</em>")),
                <<"_">>, Text("<em>"), Text("</em>")),
              <<"~", "~">>, Text("<del>"), Text("</del>"))))))

----------------------------------------------------------------------------
(* The comment ledger and the comment markers (commentParser) *)

\* A Comment of the ledger.  thread is the number of thread items, plan and
\* response tell whether the field is a record (TRUE) or null (FALSE).
Comment(id, type, text, thread, plan, response) ==
    [id |-> id, target |-> [type |-> type, text |-> text],
     thread |-> thread, plan |-> plan, response |-> response]

\* the entries of commentsData stored under the key String(id)
Entries(data, id) == SelectSeq(data, LAMBDA c : c.id = id)

\* commentsData[id.toString()] !== undefined
HasComment(data, id) == Entries(data, id) # <<>>

\* commentsData[id.toString()]
CommentOf(data, id) == Head(Entries(data, id))

extractCommentMarkers(line) ==
    LET found == SelectSeq(line, IsMarker)
        markers == [k \in 1..Len(found) |-> MarkerId(found[k])]
    IN  IF line # <<>> /\ IsMarker(Head(line))
        THEN Append(markers, MarkerId(Head(line)))
        ELSE markers

extractCommentMarkersByLine(lines) ==
    [n \in { k \in 1..Len(lines) : extractCommentMarkers(lines[k]) # <<>> }
        |-> extractCommentMarkers(lines[n])]

getCommentsForLine(lineNumber, commentsData, commentMarkers) ==
    IF commentsData.isNull THEN <<>>
    ELSE LET commentIds == IF lineNumber \in DOMAIN commentMarkers
                           THEN commentMarkers[lineNumber] ELSE <<>>
             known == SelectSeq(commentIds,
                                LAMBDA id : HasComment(commentsData.data, id))
         IN  [k \in 1..Len(known) |-> CommentOf(commentsData.data, known[k])]

hasPlan(comment) == comment.plan

hasResponse(comment) == comment.response

getCommentStatus(comment) ==
    IF hasResponse(comment) THEN Text("has-response")
    ELSE IF hasPlan(comment) THEN Text("has-plan")
    ELSE IF comment.thread > 0 THEN Text("active")
    ELSE Text("pending-plan")

----------------------------------------------------------------------------
(* Badges, thread panels and comment decoration (renderMarkdownWithDiff) *)

renderCommentBadge(comment) ==
    BadgeOpen \o getCommentStatus(comment) \o BadgeIdAttr \o Digits(comment.id)
    \o BadgeOnclick \o Digits(comment.id) \o Text("); event.stopPropagation();\">[")
    \o Digits(comment.id) \o BadgeClose

\* the opening of a thread panel, up to the value of its id attribute
ThreadPanelOpen == <<"<div class=\"comment-thread\" id=\"">>

\* The thread panel of a comment.  The panel's id, title and handler carry
\* the comment id as text; the markup between them is kept as fragments and
\* the escaped text of the thread items, plan and response as one token each.
renderCommentThread(comment) ==
    LET threadItems ==
            IF comment.thread > 0
            THEN [k \in 1..comment.thread |-> "<div class=\"comment-thread-item\">item</div>"]
            ELSE <<"<div class=\"comment-thread-item\">No comments yet</div>">>
        planHtml ==
            IF comment.plan
            THEN <<"<div class=\"comment-plan\">",
                   "<h4 class=\"comment-section-title\">Plan</h4>",
                   "<div class=\"comment-editable\" data-comment-id=\"">>
                 \o Digits(comment.id)
                 \o <<"\"", " data-type=\"plan\">", "plan", "</div>",
                      "<div class=\"comment-status-badge\">status</div>", "</div>">>
            ELSE <<>>
        responseHtml ==
            IF comment.response
            THEN <<"<div class=\"comment-response\">",
                   "<h4 class=\"comment-section-title\">Response</h4>",
                   "<div class=\"comment-editable\" data-comment-id=\"">>
                 \o Digits(comment.id)
                 \o <<"\"", " data-type=\"response\">", "response", "</div>",
                      "<div class=\"comment-status-badge\">status</div>", "</div>">>
            ELSE <<>>
    IN  ThreadPanelOpen \o CommentThreadPrefix \o Digits(comment.id)
        \o <<"\"", " style=\"display: none;\">",
             "<div class=\"comment-thread-header-bar\">",
             "<span class=\"comment-thread-title\">Comment ">>
        \o Digits(comment.id)
        \o <<"</span>", "<button class=\"comment-close-btn\" onclick=\"toggleCommentThread(">>
        \o Digits(comment.id)
        \o <<"); event.stopPropagation();\" aria-label=\"Close\">x</button>", "</div>",
             "<div class=\"comment-thread-items\">">>
        \o threadItems \o <<"</div>">> \o planHtml \o responseHtml \o <<"</div>">>

\* commentThreadsHtml.some(h => h.includes('comment-thread-' + id))
HasThread(threads, id) ==
    \E k \in 1..Len(threads) :
        Includes(threads[k], CommentThreadPrefix \o Digits(id))

\* c.target.type of a ledger entry without a target raises a TypeError;
\* such an entry has the target type "undefined"
NoTarget(cmts) == \E k \in 1..Len(cmts) : cmts[k].target.type = "undefined"

\* the bookkeeping once the render has raised
Raise(cs) == [cs EXCEPT !.thrown = TRUE]

\* processedComments.add(comment.id) and the guarded push of its thread,
\* on the record cs of processedComments and commentThreadsHtml
RECURSIVE MarkProcessed(_, _)
MarkProcessed(cs, cmts) ==
    IF cmts = <<>> THEN cs
    ELSE LET c == Head(cmts)
             threads == IF HasThread(cs.threads, c.id) THEN cs.threads
                        ELSE Append(cs.threads, renderCommentThread(c))
         IN  MarkProcessed([cs EXCEPT !.processed = @ \cup {c.id}, !.threads = threads],
                           Tail(cmts))

\* hasResponse ? 'comment-has-response' : hasPlan ? 'comment-has-plan'
\*             : 'comment-active' over a list of comments
StatusClass(cmts) ==
    IF \E k \in 1..Len(cmts) : cmts[k].response THEN Text("comment-has-response")
    ELSE IF \E k \in 1..Len(cmts) : cmts[k].plan THEN Text("comment-has-plan")
    ELSE Text("comment-active")

RECURSIVE Badges(_)
Badges(cmts) ==
    IF cmts = <<>> THEN <<>>
    ELSE renderCommentBadge(Head(cmts)) \o Badges(Tail(cmts))

\* wrapWithComments of the content c.html under the comment bookkeeping
\* c.cs: the decorated content and the new bookkeeping
wrapWithComments(c, lineNumber, cm, commentMarkers) ==
    LET lineComments == getCommentsForLine(lineNumber, cm, commentMarkers)
        blockComments ==
            SelectSeq(lineComments,
                      LAMBDA x : x.target.type = "block" /\ x.id \notin c.cs.processed)
    IN  IF NoTarget(lineComments) THEN [html |-> c.html, cs |-> Raise(c.cs)]
        ELSE IF cm.isNull \/ lineComments = <<>> \/ blockComments = <<>>
        THEN c
        ELSE [html |-> <<"<span", " class=\"comment-highlight-block ">>
                       \o StatusClass(lineComments) \o <<"\"", ">">>
                       \o Badges(blockComments) \o <<"</span>">> \o c.html,
              cs |-> MarkProcessed(c.cs, blockComments)]

\* the badges of the markers, each inserted after the first occurrence of
\* its target text in result, or appended when the text does not occur
RECURSIVE InsertBadges(_, _)
InsertBadges(result, cmts) ==
    IF cmts = <<>> THEN result
    ELSE LET c == Head(cmts)
             escapedText == escapeHtml(c.target.text)
             textIndex == IndexOf(result, escapedText)
             insertPos == textIndex + Len(escapedText) - 1
             badge == renderCommentBadge(c)
             next ==
                IF c.target.text = <<>> THEN result
                ELSE IF textIndex # 0
                THEN SubSeq(result, 1, insertPos) \o <<" ">> \o badge
                     \o Drop(result, insertPos + 1)
                ELSE result \o <<" ">> \o badge
         IN  InsertBadges(next, Tail(cmts))

\* the comments of the markers of originalLine that the ledger holds as
\* inline comments not processed yet
InlineMarkers(originalLine, cm, cs) ==
    LET wanted ==
            SelectSeq(SelectSeq(originalLine, IsMarker),
                      LAMBDA tok :
                        /\ HasComment(cm.data, MarkerId(tok))
                        /\ CommentOf(cm.data, MarkerId(tok)).target.type = "inline"
                        /\ CommentOf(cm.data, MarkerId(tok)).id \notin cs.processed)
    IN  [k \in 1..Len(wanted) |-> CommentOf(cm.data, MarkerId(wanted[k]))]

\* the highlight span around result, unless result holds a highlight
HighlightInline(result, inlineComments) ==
    IF Includes(result, Text("comment-highlight")) THEN result
    ELSE Text("<span class=\"comment-highlight ") \o StatusClass(inlineComments)
         \o Text("\">") \o result \o Text("</span>")

\* processInlineComments for the inline comments of the line and the
\* comments of its markers
DecorateInline(h, inlineComments, markers, cm, cs) ==
    IF cm.isNull \/ inlineComments = <<>> \/ markers = <<>>
    THEN [html |-> h, cs |-> cs]
    ELSE [html |-> HighlightInline(InsertBadges(h, markers), inlineComments),
          cs |-> MarkProcessed(cs, markers)]

processInlineComments(h, originalLine, lineNumber, cm, commentMarkers, cs) ==
    IF NoTarget(getCommentsForLine(lineNumber, cm, commentMarkers))
    THEN [html |-> h, cs |-> Raise(cs)]
    ELSE DecorateInline(h,
                        SelectSeq(getCommentsForLine(lineNumber, cm, commentMarkers),
                                  LAMBDA c : c.target.type = "inline"),
                        InlineMarkers(originalLine, cm, cs), cm, cs)

\* parseInline(text, originalLine, lineNumber)
parseInlineAt(text, originalLine, lineNumber, cm, commentMarkers, cs) ==
    processInlineComments(parseInline(text), originalLine, lineNumber,
                          cm, commentMarkers, cs)

----------------------------------------------------------------------------
(* Line grammar of the renderer *)

Spaces == {" ", "\t"}

DigitChars == {"0", "1", "2", "3", "4", "5", "6", "7", "8", "9"}

\* the length of the longest prefix of s made of tokens of S
LeadingRun(s, S) ==
    CHOOSE k \in 0..Len(s) :
        /\ \A j \in 1..k : s[j] \in S
        /\ k = Len(s) \/ s[k + 1] \notin S

\* String.prototype.split(sep) for a one-character separator
RECURSIVE SplitOn(_, _)
SplitOn(s, sep) ==
    LET p == FirstAt(s, sep, 1)
    IN  IF p = 0 THEN << s >>
        ELSE << SubSeq(s, 1, p - 1) >> \o SplitOn(Drop(s, p + 1), sep)

\* rest matches /^\s+(.+)$/
SpacedMatch(rest) == Len(rest) >= 2 /\ rest[1] \in Spaces

\* what the group of /^\s+(.+)$/ captures: the text after the spaces, or
\* the last space when nothing but spaces follows
SpacedGroup(rest) ==
    IF TrimStart(rest) # <<>> THEN TrimStart(rest) ELSE << rest[Len(rest)] >>

\* line.match(/^(#{1,6})\s+(.+)$/)
headerMatch(line) ==
    /\ LeadingRun(line, {"#"}) \in 1..6
    /\ SpacedMatch(Drop(line, LeadingRun(line, {"#"}) + 1))

HeaderLevel(line) == LeadingRun(line, {"#"})

HeaderText(line) == SpacedGroup(Drop(line, LeadingRun(line, {"#"}) + 1))

\* /^(-{3,}|\*{3,}|_{3,})$/.test(line.trim())
isHorizontalRule(line) ==
    /\ Len(Trim(line)) >= 3
    /\ \E c \in {"-", "*", "_"} : \A k \in 1..Len(Trim(line)) : Trim(line)[k] = c

\* line.match(/^(\s*)[-*+]\s+(.+)$/)
ulMatch(line) ==
    LET indent == LeadingRun(line, Spaces)
    IN  /\ Len(line) > indent
        /\ line[indent + 1] \in {"-", "*", "+"}
        /\ SpacedMatch(Drop(line, indent + 2))

UlText(line) == SpacedGroup(Drop(line, LeadingRun(line, Spaces) + 2))

\* line.match(/^(\s*)\d+\.\s+(.+)$/)
olMatch(line) ==
    LET indent == LeadingRun(line, Spaces)
        digits == LeadingRun(Drop(line, indent + 1), DigitChars)
    IN  /\ digits >= 1
        /\ Len(line) > indent + digits
        /\ line[indent + digits + 1] = "."
        /\ SpacedMatch(Drop(line, indent + digits + 2))

OlText(line) ==
    LET indent == LeadingRun(line, Spaces)
        digits == LeadingRun(Drop(line, indent + 1), DigitChars)
    IN  SpacedGroup(Drop(line, indent + digits + 2))

\* /^\|?\s*[-:]+[-|\s:]*\|?\s*$/.test(line)
isSeparatorRow(line) ==
    LET body == TrimStart(IF line # <<>> /\ Head(line) = "|" THEN Tail(line) ELSE line)
    IN  /\ body # <<>>
        /\ body[1] \in {"-", ":"}
        /\ \A k \in 1..Len(body) : body[k] \in {"-", ":", "|"} \cup Spaces

\* the pipes of s that are outside [...] brackets
RECURSIVE PipeCount(_, _)
PipeCount(s, inBrackets) ==
    IF s = <<>> THEN 0
    ELSE IF Head(s) = "[" THEN PipeCount(Tail(s), inBrackets + 1)
    ELSE IF Head(s) = "]"
    THEN PipeCount(Tail(s), IF inBrackets > 0 THEN inBrackets - 1 ELSE 0)
    ELSE IF Head(s) = "|" /\ inBrackets = 0 THEN 1 + PipeCount(Tail(s), inBrackets)
    ELSE PipeCount(Tail(s), inBrackets)

isTableRowAnyPipe(line) ==
    LET trimmed == Trim(line)
    IN  IF ulMatch(trimmed) \/ olMatch(trimmed) THEN FALSE
        ELSE IF StartsWith(trimmed, <<">">>) THEN FALSE
        ELSE IF StartsWith(trimmed, <<"|">>) THEN TRUE
        ELSE PipeCount(trimmed, 0) >= 1

isTableRow(line) ==
    LET trimmed == Trim(line)
    IN  IF \/ (Len(trimmed) >= 2 /\ trimmed[1] \in {"-", "*", "+"} /\ trimmed[2] \in Spaces)
           \/ LET digits == LeadingRun(trimmed, DigitChars)
              IN  /\ digits >= 1
                  /\ Len(trimmed) >= digits + 2
                  /\ trimmed[digits + 1] = "."
                  /\ trimmed[digits + 2] \in Spaces
        THEN FALSE
        ELSE IF StartsWith(trimmed, <<">">>) THEN FALSE
        ELSE IF StartsWith(trimmed, <<"|">>) THEN TRUE
        ELSE PipeCount(trimmed, 0) >= 2

\* cells without an empty first and an empty last cell
DropEmptyEnds(cells) ==
    LET noFirst == IF cells[1] = <<>> THEN Tail(cells) ELSE cells
    IN  IF noFirst # <<>> /\ noFirst[Len(noFirst)] = <<>>
        THEN SubSeq(noFirst, 1, Len(noFirst) - 1)
        ELSE noFirst

parseTableCells(line) ==
    DropEmptyEnds([k \in 1..Len(SplitOn(line, "|")) |-> Trim(SplitOn(line, "|")[k])])

\* /^<!--comment:\d+-->$/.test(line.trim())
isMarkerLine(line) == Len(Trim(line)) = 1 /\ IsMarker(Trim(line)[1])

\* text.replace(/^<!--comment:\d+-->\s*/, '')
dropLeadingMarker(text) ==
    IF text # <<>> /\ IsMarker(Head(text)) THEN TrimStart(Tail(text)) ELSE text

\* line.startsWith of three backquotes
isFence(line) == StartsWith(line, <<Backtick, Backtick, Backtick>>)

\* the test that opens the skipping of the ledger block at a line
opensCommentsData(line, inBlock) ==
    \/ Includes(Explode(line), Text("COMMENTS-DATA"))
    \/ /\ StartsWith(Explode(Trim(line)), Text("<!--"))
       /\ Includes(Explode(line), Text("COMMENTS")) \/ inBlock

----------------------------------------------------------------------------
(* Block rendering (renderMarkdownWithDiff) *)

\* the opening of an h<level> tag, without its closing '>'
HTag(level) ==
    CASE level = 1 -> "<h1" [] level = 2 -> "<h2" [] level = 3 -> "<h3"
      [] level = 4 -> "<h4" [] level = 5 -> "<h5" [] level = 6 -> "<h6"

HClose(level) ==
    CASE level = 1 -> "</h1>" [] level = 2 -> "</h2>" [] level = 3 -> "</h3>"
      [] level = 4 -> "</h4>" [] level = 5 -> "</h5>" [] level = 6 -> "</h6>"

\* the openings of the block tags the renderer writes, without their '>'
TagHeads ==
    {"<p", "<blockquote", "<pre", "<span", "<div", "<li", "<tr"}
    \cup { HTag(level) : level \in 1..6 }

WordChars ==
    {"a", "b", "c", "d", "e", "f", "g", "h", "i", "j", "k", "l", "m", "n",
     "o", "p", "q", "r", "s", "t", "u", "v", "w", "x", "y", "z", "_",
     "A", "B", "C", "D", "E", "F", "G", "H", "I", "J", "K", "L", "M", "N",
     "O", "P", "Q", "R", "S", "T", "U", "V", "W", "X", "Y", "Z"}
    \cup DigitChars

\* the attribute data-line="n"
DataLineAttr(n) == <<" data-line=\"">> \o Digits(n) \o <<"\"">>

\* content.replace(/^<(\w+)/, '<$1 data-line="n"')
InjectDataLine(content, n) ==
    IF content # <<>> /\ Head(content) \in TagHeads
    THEN << Head(content) >> \o DataLineAttr(n) \o Tail(content)
    ELSE IF content # <<>> /\ Head(content) = "<"
            /\ LeadingRun(Tail(content), WordChars) >= 1
    THEN SubSeq(content, 1, 1 + LeadingRun(Tail(content), WordChars))
         \o DataLineAttr(n)
         \o Drop(content, 2 + LeadingRun(Tail(content), WordChars))
    ELSE content

\* removedLines.get(n), the empty text when there is no entry
RemovedAt(n) ==
    IF n \in DOMAIN diff.removedLines THEN diff.removedLines[n] ELSE <<>>

renderRemovedLine(line) ==
    LET trimmed == Trim(line)
    IN  IF headerMatch(trimmed)
        THEN <<HTag(HeaderLevel(trimmed)), " class=\"removed-content\"", ">">>
             \o parseInline(HeaderText(trimmed))
             \o <<HClose(HeaderLevel(trimmed))>>
        ELSE IF StartsWith(trimmed, <<">">>)
        THEN <<"<blockquote", " class=\"removed-content\"", ">", "<p>">>
             \o parseInline(Trim(Tail(trimmed)))
             \o <<"</p>", "</blockquote>">>
        ELSE IF trimmed # <<>>
        THEN <<"<p", " class=\"removed-content\"", ">">>
             \o parseInline(trimmed) \o <<"</p>">>
        ELSE <<>>

ListOpen(type) == IF type = "ul" THEN "<ul" ELSE "<ol"

ListClose(type) == IF type = "ul" THEN "</ul>" ELSE "</ol>"

\* the forEach of renderRemovedBlock with its flushRemovedList
RECURSIVE RemovedBlockLoop(_, _, _)
RemovedBlockLoop(ls, inRemovedList, removedListType) ==
    LET flush == IF inRemovedList THEN <<ListClose(removedListType)>> ELSE <<>>
    IN  IF ls = <<>> THEN flush
        ELSE LET trimmed == Trim(Head(ls))
                 isUl == ulMatch(trimmed)
                 isItem == ulMatch(trimmed) \/ olMatch(trimmed)
                 type == IF isUl THEN "ul" ELSE "ol"
             IN  IF trimmed = <<>>
                 THEN flush \o RemovedBlockLoop(Tail(ls), FALSE, removedListType)
                 ELSE IF isItem
                 THEN (IF ~inRemovedList \/ removedListType # type
                       THEN flush \o <<ListOpen(type), " class=\"removed-content-list\"", ">">>
                       ELSE <<>>)
                      \o <<"<li", " class=\"removed-content\"", ">">>
                      \o parseInline(IF isUl THEN UlText(trimmed) ELSE OlText(trimmed))
                      \o <<"</li>">>
                      \o RemovedBlockLoop(Tail(ls), TRUE, type)
                 ELSE flush \o renderRemovedLine(Head(ls))
                      \o RemovedBlockLoop(Tail(ls), FALSE, removedListType)

renderRemovedBlock(removedContent) ==
    <<"<div class=\"diff-removed-block\">", "<span class=\"diff-removed-label\">removed</span>">>
    \o RemovedBlockLoop(SplitOn(removedContent, "\n"), FALSE, "ul")
    \o <<"</div>">>

RECURSIVE RemovedListItemsLoop(_)
RemovedListItemsLoop(ls) ==
    IF ls = <<>> THEN <<>>
    ELSE LET trimmed == Trim(Head(ls))
             text == IF ulMatch(trimmed) THEN UlText(trimmed)
                     ELSE IF olMatch(trimmed) THEN OlText(trimmed)
                     ELSE trimmed
         IN  (IF trimmed = <<>> THEN <<>>
              ELSE <<"<li", " class=\"diff-line removed\"", ">">> \o parseInline(text) \o <<"</li>">>)
             \o RemovedListItemsLoop(Tail(ls))

renderRemovedListItems(removedContent) ==
    RemovedListItemsLoop(SplitOn(removedContent, "\n"))

\* the diff decoration wrapWithDiff puts around wc, the content that
\* wrapWithComments returned
DiffMarkup(wc, lineNumber, isBlock) ==
    [html |->
        (IF RemovedAt(lineNumber) # <<>>
         THEN renderRemovedBlock(RemovedAt(lineNumber)) ELSE <<>>)
        \o (IF lineNumber \in diff.addedLines
            THEN <<IF isBlock THEN "<div" ELSE "<span",
                   " class=\"diff-line added clickable\"">>
                 \o DataLineAttr(lineNumber) \o <<">">>
                 \o (IF showLineNumbers
                     THEN <<"<span class=\"line-number\">">> \o Digits(lineNumber)
                          \o <<"</span>">>
                     ELSE <<>>)
                 \o wc.html
                 \o <<IF isBlock THEN "</div>" ELSE "</span>">>
            ELSE IF isBlock THEN InjectDataLine(wc.html, lineNumber)
            ELSE wc.html),
     cs |-> wc.cs]

\* wrapWithDiff of the content c.html under the comment bookkeeping c.cs:
\* the decorated content and the new bookkeeping
wrapWithDiff(c, lineNumber, isBlock) ==
    DiffMarkup(wrapWithComments(c, lineNumber, comments,
                                extractCommentMarkersByLine(docLines)),
               lineNumber, isBlock)

RECURSIVE buildNestedList(_, _, _)
RECURSIVE NestedListLoop(_, _, _, _)

\* the while loop of buildNestedList from item i on (items are numbered
\* from 1), with the markup written so far
NestedListLoop(items, i, currentIndent, listHtml) ==
    IF i > Len(items) \/ items[i].indent < currentIndent
    THEN [html |-> listHtml, endIdx |-> i]
    ELSE IF items[i].indent = currentIndent
    THEN LET hasNested == i + 1 <= Len(items) /\ items[i + 1].indent > currentIndent
             nested == buildNestedList(items, i + 1, items[i + 1].indent)
         IN  NestedListLoop(
                items,
                IF hasNested THEN nested.endIdx ELSE i + 1,
                currentIndent,
                listHtml
                \o (IF RemovedAt(items[i].lineNumber) # <<>>
                    THEN renderRemovedListItems(RemovedAt(items[i].lineNumber))
                    ELSE <<>>)
                \o <<"<li">>
                \o (IF items[i].lineNumber \in diff.addedLines
                    THEN <<" class=\"diff-line added\"">> ELSE <<>>)
                \o DataLineAttr(items[i].lineNumber) \o <<">">> \o items[i].content
                \o (IF hasNested THEN nested.html ELSE <<>>)
                \o <<"</li>">>)
    ELSE LET nested == buildNestedList(items, i, items[i].indent)
         IN  NestedListLoop(items, nested.endIdx, currentIndent,
                            listHtml \o nested.html)

buildNestedList(items, startIdx, currentIndent) ==
    IF startIdx > Len(items) THEN [html |-> <<>>, endIdx |-> startIdx]
    ELSE LET tag == items[startIdx].type
             loop == NestedListLoop(items, startIdx, currentIndent,
                                    <<ListOpen(tag), ">">>)
         IN  [html |-> loop.html \o <<ListClose(tag)>>, endIdx |-> loop.endIdx]

RECURSIVE Cells(_, _, _)
Cells(cells, open, close) ==
    IF cells = <<>> THEN <<>>
    ELSE <<open>> \o parseInline(Head(cells)) \o <<close>>
         \o Cells(Tail(cells), open, close)

RECURSIVE RemovedTableRowsLoop(_, _)
RemovedTableRowsLoop(ls, columnCount) ==
    IF ls = <<>> THEN <<>>
    ELSE LET removedLine == Head(ls)
             trimmed == Trim(removedLine)
         IN  (IF trimmed = <<>> \/ isSeparatorRow(trimmed) THEN <<>>
              ELSE IF isTableRow(removedLine)
              THEN <<"<tr", " class=\"diff-row-removed\"", ">">>
                   \o Cells(parseTableCells(removedLine), "<td>", "</td>")
                   \o <<"</tr>">>
              ELSE <<"<tr", " class=\"diff-row-removed\"", ">", "<td colspan=\"">>
                   \o Digits(IF columnCount > 1 THEN columnCount ELSE 1)
                   \o <<"\">">> \o parseInline(removedLine)
                   \o <<"</td>", "</tr>">>)
             \o RemovedTableRowsLoop(Tail(ls), columnCount)

renderRemovedTableRows(removedContent, columnCount) ==
    RemovedTableRowsLoop(SplitOn(removedContent, "\n"), columnCount)

SetMax(S) == CHOOSE x \in S : \A y \in S : y <= x

\* the for loop of flushTable from row i on (rows are numbered from 1)
RECURSIVE TableLoop(_, _, _, _, _, _)
TableLoop(rows, i, isHeader, skipNext, allRowsAdded, columnCount) ==
    IF i > Len(rows) THEN <<>>
    ELSE IF skipNext
    THEN TableLoop(rows, i + 1, isHeader, FALSE, allRowsAdded, columnCount)
    ELSE IF isSeparatorRow(rows[i].line)
    THEN TableLoop(rows, i + 1, isHeader, FALSE, allRowsAdded, columnCount)
    ELSE LET lineNumber == rows[i].lineNumber
             removedContent == RemovedAt(lineNumber)
             isAdded == lineNumber \in diff.addedLines
         IN  (IF removedContent # <<>>
              THEN renderRemovedTableRows(removedContent, columnCount) ELSE <<>>)
             \o <<"<tr">>
             \o (IF isAdded /\ ~allRowsAdded THEN <<" class=\"diff-row-added\"">> ELSE <<>>)
             \o DataLineAttr(lineNumber) \o <<">">>
             \o Cells(parseTableCells(rows[i].line),
                      IF isHeader THEN "<th>" ELSE "<td>",
                      IF isHeader THEN "</th>" ELSE "</td>")
             \o <<"</tr>">>
             \o TableLoop(rows, i + 1, FALSE,
                          isHeader /\ i + 1 <= Len(rows)
                                   /\ isSeparatorRow(rows[i + 1].line),
                          allRowsAdded, columnCount)

\* the markup of a table that counts as new once one content row is added
TableHtmlAnyAdded(rows, startLine) ==
    LET contentRows == SelectSeq(rows, LAMBDA r : ~isSeparatorRow(r.line))
        allRowsAdded ==
            /\ contentRows # <<>>
            /\ \E k \in 1..Len(contentRows) :
                   contentRows[k].lineNumber \in diff.addedLines
        columnCount ==
            SetMax({1} \cup { Len(parseTableCells(contentRows[k].line)) :
                               k \in 1..Len(contentRows) })
    IN  (IF allRowsAdded
         THEN <<"<div class=\"diff-table-wrapper added\"">> \o DataLineAttr(startLine)
              \o <<">">>
         ELSE <<>>)
        \o <<"<table>">>
        \o TableLoop(rows, 1, TRUE, FALSE, allRowsAdded, columnCount)
        \o <<"</table>">>
        \o (IF allRowsAdded THEN <<"</div>">> ELSE <<>>)

\* the markup flushTable writes for the accumulated rows
TableHtml(rows, startLine) ==
    LET contentRows == SelectSeq(rows, LAMBDA r : ~isSeparatorRow(r.line))
        allRowsAdded ==
            /\ contentRows # <<>>
            /\ \A k \in 1..Len(contentRows) :
                   contentRows[k].lineNumber \in diff.addedLines
        columnCount ==
            SetMax({1} \cup { Len(parseTableCells(contentRows[k].line)) :
                               k \in 1..Len(contentRows) })
    IN  (IF allRowsAdded
         THEN <<"<div class=\"diff-table-wrapper added\"">> \o DataLineAttr(startLine)
              \o <<">">>
         ELSE <<>>)
        \o <<"<table>">>
        \o TableLoop(rows, 1, TRUE, FALSE, allRowsAdded, columnCount)
        \o <<"</table>">>
        \o (IF allRowsAdded THEN <<"</div>">> ELSE <<>>)

----------------------------------------------------------------------------
(* The line loop of renderMarkdownWithDiff *)

\* the mutable locals of renderMarkdownWithDiff, as one record; cs holds
\* processedComments and commentThreadsHtml
Locals ==
    [html |-> html,
     cs |-> [processed |-> processedComments, threads |-> commentThreadsHtml,
             thrown |-> FALSE],
     inCodeBlock |-> inCodeBlock,
     codeBlockContent |-> codeBlockContent,
     codeBlockStartLine |-> codeBlockStartLine,
     inList |-> inList,
     listItems |-> listItems,
     inTable |-> inTable,
     tableRows |-> tableRows,
     tableStartLine |-> tableStartLine,
     inCommentsDataBlock |-> inCommentsDataBlock]

flushList(s) ==
    IF s.inList /\ s.listItems # <<>>
    THEN [s EXCEPT !.html = @ \o buildNestedList(s.listItems, 1,
                                                 s.listItems[1].indent).html,
                   !.listItems = <<>>,
                   !.inList = FALSE]
    ELSE s

flushTable(s) ==
    IF s.inTable /\ s.tableRows # <<>>
    THEN [s EXCEPT !.html = @ \o TableHtml(s.tableRows, s.tableStartLine),
                   !.tableRows = <<>>,
                   !.inTable = FALSE]
    ELSE s

\* html += w.html, with the comment bookkeeping w carries
Emit(s, w) == [s EXCEPT !.html = @ \o w.html, !.cs = w.cs]

\* open + r.html + close
Enclose(open, r, close) == [html |-> open \o r.html \o close, cs |-> r.cs]

\* the spans of the captured code lines, one per element of
\* codeBlockContent.split('\n')
RECURSIVE CodeLines(_, _)
CodeLines(codeLines, codeLineNum) ==
    IF codeLines = <<>> THEN <<>>
    ELSE <<"<span">>
         \o (IF codeLineNum \in diff.addedLines
             THEN <<" class=\"diff-line added\"">> ELSE <<>>)
         \o DataLineAttr(codeLineNum) \o <<">">>
         \o escapeHtml(Head(codeLines)) \o <<"</span>", "\n">>
         \o CodeLines(Tail(codeLines), codeLineNum + 1)

\* a line that starts with the fence: opens a code block or closes it
FenceStep(s, lineNumber) ==
    IF ~s.inCodeBlock
    THEN [flushTable(flushList(s)) EXCEPT !.inCodeBlock = TRUE,
                                          !.codeBlockContent = <<>>,
                                          !.codeBlockStartLine = lineNumber]
    ELSE Emit([s EXCEPT !.inCodeBlock = FALSE],
              IF s.codeBlockStartLine \in diff.addedLines
              THEN wrapWithDiff(
                      [html |-> <<"<pre", ">", "<code>">>
                                \o CodeLines(SplitOn(s.codeBlockContent, "\n"),
                                             s.codeBlockStartLine + 1)
                                \o <<"</code>", "</pre>">>,
                       cs |-> s.cs],
                      s.codeBlockStartLine, TRUE)
              ELSE [html |-> <<"<pre", ">", "<code>">>
                             \o CodeLines(SplitOn(s.codeBlockContent, "\n"),
                                          s.codeBlockStartLine + 1)
                             \o <<"</code>", "</pre>">>,
                    cs |-> s.cs])

\* codeBlockContent += (codeBlockContent ? '\n' : '') + line
CodeStep(s, line) ==
    [s EXCEPT !.codeBlockContent =
        @ \o (IF @ # <<>> THEN <<"\n">> ELSE <<>>) \o line]

\* an empty line, after flushList and flushTable
EmptyStep(f, lineNumber) ==
    IF RemovedAt(lineNumber) # <<>>
    THEN [f EXCEPT !.html = @ \o renderRemovedBlock(RemovedAt(lineNumber))]
    ELSE f

\* a table row; f is the state after flushList when no table is open
TableStep(s, f, line, lineNumber) ==
    [(IF s.inTable THEN s
      ELSE [f EXCEPT !.inTable = TRUE, !.tableStartLine = lineNumber])
     EXCEPT !.tableRows = Append(@, [line |-> line, lineNumber |-> lineNumber])]

\* the badge a header gets from a block comment marker on the line before
\* it; r is the header markup with its bookkeeping
HeaderBlockComment(r, lineNumber) ==
    LET prevLine == IF lineNumber > 1 THEN docLines[lineNumber - 1] ELSE <<>>
        commentId == MarkerId(Trim(prevLine)[1])
        comment == CommentOf(comments.data, commentId)
    IN  IF /\ isMarkerLine(prevLine)
           /\ ~comments.isNull
           /\ HasComment(comments.data, commentId)
           /\ NoTarget(<<comment>>)
        THEN [html |-> r.html, cs |-> Raise(r.cs)]
        ELSE IF /\ isMarkerLine(prevLine)
           /\ ~comments.isNull
           /\ HasComment(comments.data, commentId)
           /\ comment.target.type = "block"
           /\ comment.id \notin r.cs.processed
        THEN [html |-> <<"<span", " class=\"comment-highlight-block ">>
                       \o StatusClass(<<comment>>) \o <<"\"", ">">>
                       \o renderCommentBadge(comment) \o <<"</span>">> \o r.html,
              cs |-> MarkProcessed(r.cs, <<comment>>)]
        ELSE r

\* a header line, after the flushes
HeaderStep(f, line, lineNumber) ==
    Emit(f,
         wrapWithDiff(
            HeaderBlockComment(
                Enclose(<<HTag(HeaderLevel(line)), ">">>,
                        parseInlineAt(Trim(HeaderText(line)), line, lineNumber,
                                      comments,
                                      extractCommentMarkersByLine(docLines), f.cs),
                        <<HClose(HeaderLevel(line))>>),
                lineNumber),
            lineNumber, TRUE))

\* a horizontal rule, after the flushes
RuleStep(f) == [f EXCEPT !.html = @ \o <<"<hr>">>]

\* a blockquote line, after the flushes
QuoteStep(f, line, lineNumber) ==
    Emit(f,
         wrapWithDiff(
            Enclose(<<"<blockquote", ">", "<p>">>,
                    parseInlineAt(dropLeadingMarker(Trim(Tail(line))), line,
                                  lineNumber, comments,
                                  extractCommentMarkersByLine(docLines), f.cs),
                    <<"</p>", "</blockquote>">>),
            lineNumber, TRUE))

\* listItems.push of an item whose content is pin
PushItem(s, pin, indent, lineNumber, type) ==
    [s EXCEPT !.inList = TRUE,
              !.listItems = Append(@, [content |-> pin.html,
                                       indent |-> indent,
                                       lineNumber |-> lineNumber,
                                       type |-> type]),
              !.cs = pin.cs]

\* a list item line; s is the state after a pending table is flushed
ItemStep(s, line, lineNumber, type) ==
    PushItem(s,
             parseInlineAt(IF type = "ul" THEN UlText(line) ELSE OlText(line),
                           line, lineNumber, comments,
                           extractCommentMarkersByLine(docLines), s.cs),
             LeadingRun(line, Spaces), lineNumber, type)

\* a paragraph line, after the flushes
ParagraphStep(f, line, lineNumber) ==
    Emit(f,
         wrapWithDiff(
            Enclose(<<"<p", ">">>,
                    parseInlineAt(Trim(dropLeadingMarker(line)), line, lineNumber,
                                  comments,
                                  extractCommentMarkersByLine(docLines), f.cs),
                    <<"</p>">>),
            lineNumber, TRUE))

\* the block construct of a line, by the program's order of tests
LineKind(line) ==
    IF Trim(line) = <<>> THEN "empty"
    ELSE IF isTableRow(line) THEN "table"
    ELSE IF headerMatch(line) THEN "header"
    ELSE IF isHorizontalRule(line) THEN "rule"
    ELSE IF StartsWith(line, <<">">>) THEN "quote"
    ELSE IF ulMatch(line) THEN "ul"
    ELSE IF olMatch(line) THEN "ol"
    ELSE "paragraph"

\* the branches that start with flushList and flushTable; f is the state
\* after these flushes
FlushedStep(f, kind, line, lineNumber) ==
    CASE kind = "header" -> HeaderStep(f, line, lineNumber)
      [] kind = "rule" -> RuleStep(f)
      [] kind = "quote" -> QuoteStep(f, line, lineNumber)
      [] OTHER -> ParagraphStep(f, line, lineNumber)

\* the block grammar for a line that is neither skipped nor part of a code
\* block: a line that is no table row flushes a pending table first
BlockStep(s, kind, line, lineNumber) ==
    CASE kind = "empty" -> EmptyStep(flushTable(flushList(s)), lineNumber)
      [] kind = "table" -> TableStep(s, flushList(s), line, lineNumber)
      [] kind \in {"ul", "ol"} -> ItemStep(flushTable(s), line, lineNumber, kind)
      [] OTHER -> FlushedStep(flushTable(flushList(flushTable(s))), kind, line,
                              lineNumber)

\* one iteration of the for loop on line (line i + 1 of the document)
LineStep(s, i, line) ==
    IF s.inCommentsDataBlock \/ opensCommentsData(line, s.inCommentsDataBlock)
    THEN [s EXCEPT !.inCommentsDataBlock =
                        ~Includes(Explode(line), Text("-->"))]
    ELSE IF /\ Explode(Trim(line)) = Text("<!--")
            /\ i + 1 < Len(docLines)
            /\ Includes(Explode(docLines[i + 2]), Text("COMMENTS-DATA"))
    THEN [s EXCEPT !.inCommentsDataBlock = TRUE]
    ELSE IF isMarkerLine(line) THEN s
    ELSE IF isFence(line) THEN FenceStep(s, i + 1)
    ELSE IF s.inCodeBlock THEN CodeStep(s, line)
    ELSE BlockStep(s, LineKind(line), line, i + 1)

\* the locals after a step that returned
Assigned(s) ==
    /\ html' = s.html
    /\ processedComments' = s.cs.processed
    /\ commentThreadsHtml' = s.cs.threads
    /\ inCodeBlock' = s.inCodeBlock
    /\ codeBlockContent' = s.codeBlockContent
    /\ codeBlockStartLine' = s.codeBlockStartLine
    /\ inList' = s.inList
    /\ listItems' = s.listItems
    /\ inTable' = s.inTable
    /\ tableRows' = s.tableRows
    /\ tableStartLine' = s.tableStartLine
    /\ inCommentsDataBlock' = s.inCommentsDataBlock

\* the outcome of a step: the locals and the next position of the render, or
\* the exception that ends renderMarkdownWithDiff
SetLocals(s, next) ==
    IF s.cs.thrown
    THEN /\ pcR' = "thrown"
         /\ UNCHANGED << html, commentThreadsHtml, processedComments, inCodeBlock,
                         codeBlockContent, codeBlockStartLine, inList, listItems,
                         inTable, tableRows, tableStartLine, inCommentsDataBlock >>
    ELSE Assigned(s) /\ pcR' = next

\* the body of the for loop for the next line
RenderLine ==
    /\ pcR = "render"
    /\ idx < Len(docLines)
    /\ SetLocals(LineStep(Locals, idx, docLines[idx + 1]), "render")
    /\ idx' = idx + 1
    /\ UNCHANGED << docLines, diff, showLineNumbers, comments >>
    /\ UNCHANGED << diffVars, ledgerVars, gitVars, panelVars, nestVars >>

RECURSIVE Flatten(_)
Flatten(ss) == IF ss = <<>> THEN <<>> ELSE Head(ss) \o Flatten(Tail(ss))

\* return html || the empty-state markup
OrEmptyState(body) ==
    IF body # <<>> THEN body
    ELSE <<"<div class=\"empty-state\"><p>Empty document</p></div>">>

\* what follows the final flushes: the removed text past the last line,
\* the thread container, and the returned value
Returned(f, lastLineRemoved) ==
    [f EXCEPT !.html =
        OrEmptyState(
            f.html
            \o (IF lastLineRemoved # <<>>
                THEN renderRemovedBlock(lastLineRemoved) ELSE <<>>)
            \o (IF f.cs.threads # <<>>
                THEN <<"<div class=\"comment-threads-container\">">>
                     \o Flatten(f.cs.threads) \o <<"</div>">>
                ELSE <<>>))]

\* after the loop
RenderEnd ==
    /\ pcR = "render"
    /\ idx = Len(docLines)
    /\ SetLocals(Returned(flushTable(flushList(Locals)),
                          RemovedAt(Len(docLines) + 1)), "done")
    /\ UNCHANGED << docLines, diff, showLineNumbers, comments, idx >>
    /\ UNCHANGED << diffVars, ledgerVars, gitVars, panelVars, nestVars >>

NextRender == RenderLine \/ RenderEnd

\* parseDiff is not running
ParseIdle ==
    /\ pc = "idle"
    /\ diffInput = <<>>
    /\ hunks = <<>>
    /\ addedLines = {}
    /\ removedLines = EmptyMap
    /\ newLineNumber = 0
    /\ oldLineNumber = 0
    /\ pendingRemovals = <<>>
    /\ removalInsertPoint = 0

\* the locals of renderMarkdownWithDiff at its first line
RenderStart ==
    /\ pcR = "render"
    /\ idx = 0
    /\ html = <<>>
    /\ commentThreadsHtml = <<>>
    /\ processedComments = {}
    /\ inCodeBlock = FALSE
    /\ codeBlockContent = <<>>
    /\ codeBlockStartLine = 0
    /\ inList = FALSE
    /\ listItems = <<>>
    /\ inTable = FALSE
    /\ tableRows = <<>>
    /\ tableStartLine = 0
    /\ inCommentsDataBlock = FALSE

----------------------------------------------------------------------------
(***************************************************************************)
(* Part 3: the comment ledger as text.                                     *)
(*                                                                         *)
(* parseCommentsData (src/src/markdownRenderer.ts:494-525) and             *)
(* _updateComment (src/src/markdownPreview.ts:1766-1833) read and write    *)
(* the COMMENTS-DATA block of the document.  JSON text is a sequence of    *)
(* tokens: the structural characters, the quote, white space, the words    *)
(* null, true and false, digits, the characters of strings (a property     *)
(* name or a target type being one token) and the escape \u003e (one       *)
(* token, a '>' once parsed).  Strings hold no quote, no backslash and no  *)
(* control character; object keys are written in ascending order, for      *)
(* which the property order of the engine is the order of insertion.  A    *)
(* JSON value is a record tagged by t.                                     *)
(***************************************************************************)

\* what \s matches and String.prototype.trim removes
WhiteSpace == {" ", "\t", "\n"}

\* s without its leading white space
SkipWs(s) == Drop(s, LeadingRun(s, WhiteSpace) + 1)

\* String.prototype.trim on a text that may hold line breaks
RECURSIVE TrimWs(_)
TrimWs(s) ==
    IF s # <<>> /\ s[Len(s)] \in WhiteSpace THEN TrimWs(SubSeq(s, 1, Len(s) - 1))
    ELSE SkipWs(s)

\* the escape \u003e of a string literal
EscapedGt == "\\u003e"

\* the value of a run of decimal digits
RECURSIVE NumberOf(_)
NumberOf(ds) ==
    IF ds = <<>> THEN 0
    ELSE 10 * NumberOf(SubSeq(ds, 1, Len(ds) - 1))
         + (CHOOSE n \in 0..9 : ToString(n) = ds[Len(ds)])

\* JSON.parse threw a SyntaxError
NoParse == [ok |-> FALSE, v |-> [t |-> "null"], rest |-> <<>>]

\* a string literal at the head of s: its value and the text after it
ParseString(s) ==
    LET q == FirstAt(s, "\"", 2)
    IN  IF q = 0 \/ \E k \in 2..(q - 1) : s[k] \in {"\n", "\t", "\\"}
        THEN NoParse
        ELSE [ok |-> TRUE,
              v |-> [t |-> "str",
                     s |-> [k \in 1..(q - 2) |->
                              IF s[k + 1] = EscapedGt THEN ">" ELSE s[k + 1]]],
              rest |-> Drop(s, q + 1)]

\* obj[k] = v on the members of an object: a repeated key keeps its place
SetMember(members, k, v) ==
    IF \E i \in 1..Len(members) : members[i].k = k
    THEN [i \in 1..Len(members) |->
            IF members[i].k = k THEN [k |-> k, v |-> v] ELSE members[i]]
    ELSE Append(members, [k |-> k, v |-> v])

RECURSIVE ParseValue(_)
RECURSIVE ParseMembers(_, _)
RECURSIVE ParseElements(_, _)

\* the members of an object after its '{' or after a ','
ParseMembers(s0, members) ==
    LET s == SkipWs(s0)
        key == ParseString(s)
        colon == SkipWs(key.rest)
        val == ParseValue(Tail(colon))
        after == SkipWs(val.rest)
    IN  IF s # <<>> /\ s[1] = "}" /\ members = <<>>
        THEN [ok |-> TRUE, v |-> [t |-> "obj", o |-> <<>>], rest |-> Tail(s)]
        ELSE IF s = <<>> \/ s[1] # "\"" THEN NoParse
        ELSE IF ~key.ok \/ colon = <<>> \/ colon[1] # ":" THEN NoParse
        ELSE IF ~val.ok \/ after = <<>> THEN NoParse
        ELSE IF after[1] = ","
        THEN ParseMembers(Tail(after), SetMember(members, key.v.s, val.v))
        ELSE IF after[1] = "}"
        THEN [ok |-> TRUE,
              v |-> [t |-> "obj", o |-> SetMember(members, key.v.s, val.v)],
              rest |-> Tail(after)]
        ELSE NoParse

\* the elements of an array after its '[' or after a ','
ParseElements(s0, elements) ==
    LET s == SkipWs(s0)
        val == ParseValue(s)
        after == SkipWs(val.rest)
    IN  IF s # <<>> /\ s[1] = "]" /\ elements = <<>>
        THEN [ok |-> TRUE, v |-> [t |-> "arr", a |-> <<>>], rest |-> Tail(s)]
        ELSE IF ~val.ok \/ after = <<>> THEN NoParse
        ELSE IF after[1] = ","
        THEN ParseElements(Tail(after), Append(elements, val.v))
        ELSE IF after[1] = "]"
        THEN [ok |-> TRUE, v |-> [t |-> "arr", a |-> Append(elements, val.v)],
              rest |-> Tail(after)]
        ELSE NoParse

\* one JSON value at the head of s0
ParseValue(s0) ==
    LET s == SkipWs(s0)
        digits == LeadingRun(s, DigitChars)
    IN  IF s = <<>> THEN NoParse
        ELSE IF s[1] = "{" THEN ParseMembers(Tail(s), <<>>)
        ELSE IF s[1] = "[" THEN ParseElements(Tail(s), <<>>)
        ELSE IF s[1] = "\"" THEN ParseString(s)
        ELSE IF s[1] = "null"
        THEN [ok |-> TRUE, v |-> [t |-> "null"], rest |-> Tail(s)]
        ELSE IF s[1] \in {"true", "false"}
        THEN [ok |-> TRUE, v |-> [t |-> "bool", b |-> s[1] = "true"], rest |-> Tail(s)]
        ELSE IF digits >= 1 /\ (digits = 1 \/ s[1] # "0")
        THEN [ok |-> TRUE, v |-> [t |-> "num", n |-> NumberOf(SubSeq(s, 1, digits))],
              rest |-> Drop(s, digits + 1)]
        ELSE NoParse

\* JSON.parse(text): ok is FALSE when it throws
JSONparse(text) ==
    IF ParseValue(text).ok /\ SkipWs(ParseValue(text).rest) = <<>>
    THEN ParseValue(text) ELSE NoParse

\* indentation of JSON.stringify(value, null, 2)
Indent(n) == [k \in 1..n |-> " "]

RECURSIVE Stringify(_, _)
RECURSIVE StringifyItems(_, _, _)

\* the members or elements of a non-empty object or array, one per line
StringifyItems(items, isObject, ind) ==
    IF items = <<>> THEN <<>>
    ELSE Indent(ind)
         \o (IF isObject
             THEN <<"\"">> \o Head(items).k \o <<"\"", ":", " ">>
                  \o Stringify(Head(items).v, ind)
             ELSE Stringify(Head(items), ind))
         \o (IF Len(items) > 1 THEN <<",">> ELSE <<>>) \o <<"\n">>
         \o StringifyItems(Tail(items), isObject, ind)

\* JSON.stringify(value, null, 2) of a value nested ind spaces deep
Stringify(v, ind) ==
    CASE v.t = "null" -> <<"null">>
      [] v.t = "bool" -> <<IF v.b THEN "true" ELSE "false">>
      [] v.t = "num" -> Digits(v.n)
      [] v.t = "str" -> <<"\"">> \o v.s \o <<"\"">>
      [] v.t = "arr" ->
            IF v.a = <<>> THEN <<"[", "]">>
            ELSE <<"[", "\n">> \o StringifyItems(v.a, FALSE, ind + 2)
                 \o Indent(ind) \o <<"]">>
      [] v.t = "obj" ->
            IF v.o = <<>> THEN <<"{", "}">>
            ELSE <<"{", "\n">> \o StringifyItems(v.o, TRUE, ind + 2)
                 \o Indent(ind) \o <<"}">>

\* for an opening '<!--' at p: the position after \s*COMMENTS-DATA\s*, or 0
\* when the name does not follow
BodyAt(markdown, p) ==
    LET name == p + 4 + LeadingRun(Drop(markdown, p + 4), WhiteSpace)
    IN  IF MatchAt(markdown, Text("COMMENTS-DATA"), name)
        THEN name + 13 + LeadingRun(Drop(markdown, name + 13), WhiteSpace)
        ELSE 0

\* markdown.match(commentsBlockRegex) for
\* /<!--\s*COMMENTS-DATA\s*([\s\S]*?)\s*-->/: whether it matches, the
\* position of the match, its length and its group
CommentsBlockMatch(markdown) ==
    LET closes == Occurrences(markdown, Text("-->"))
        starts == { p \in Occurrences(markdown, Text("<!--")) :
                      /\ BodyAt(markdown, p) > 0
                      /\ \E q \in closes : q >= BodyAt(markdown, p) }
    IN  IF starts = {}
        THEN [found |-> FALSE, index |-> 0, length |-> 0, group |-> <<>>]
        ELSE CHOOSE m \in
                { [found |-> TRUE, index |-> p, length |-> q + 3 - p,
                   group |-> TrimWs(SubSeq(markdown, BodyAt(markdown, p), q - 1))] :
                    p \in {SetMin(starts)}, q \in closes } :
                /\ m.index + m.length - 3 >= BodyAt(markdown, m.index)
                /\ \A q \in closes :
                      q >= BodyAt(markdown, m.index) => q >= m.index + m.length - 3

\* the value parseCommentsData returns for a match m and the parse of its
\* trimmed group
ParsedBlock(m, data) ==
    IF ~m.found \/ m.group = <<>> THEN [isNull |-> TRUE, json |-> [t |-> "null"]]
    ELSE IF ~data.ok THEN [isNull |-> TRUE, json |-> [t |-> "null"]]
    ELSE IF data.v.t \notin {"obj"} THEN [isNull |-> TRUE, json |-> [t |-> "null"]]
    ELSE [isNull |-> FALSE, json |-> data.v]

\* parseCommentsData(markdown): null, or the parsed JSON value
parseCommentsData(markdown) ==
    ParsedBlock(CommentsBlockMatch(markdown),
                JSONparse(TrimWs(CommentsBlockMatch(markdown).group)))

\* value[key] of a parsed JSON value; a missing property is undefined
Member(v, key) ==
    IF v.t = "obj" /\ \E i \in 1..Len(v.o) : v.o[i].k = key
    THEN (CHOOSE m \in Range(v.o) : m.k = key).v
    ELSE [t |-> "undefined"]

\* The Comment the renderer reads from the entry v stored under key.  The
\* entries of the ledgers below are stored under their own id and are
\* either whole (target, thread, plan and response present) or values
\* without any property (an empty object, a number).
AsComment(key, v) ==
    [id |-> NumberOf(key),
     target |->
        IF Member(v, <<"target">>).t = "obj"
        THEN [type |-> IF Member(Member(v, <<"target">>), <<"type">>) = [t |-> "str", s |-> <<"inline">>]
                       THEN "inline"
                       ELSE IF Member(Member(v, <<"target">>), <<"type">>) = [t |-> "str", s |-> <<"block">>]
                       THEN "block" ELSE "other",
              text |-> IF Member(Member(v, <<"target">>), <<"text">>).t = "str"
                       THEN Member(Member(v, <<"target">>), <<"text">>).s ELSE <<>>]
        ELSE [type |-> "undefined", text |-> <<>>],
     thread |-> IF Member(v, <<"thread">>).t = "arr" THEN Len(Member(v, <<"thread">>).a) ELSE 0,
     plan |-> Member(v, <<"plan">>).t = "obj",
     response |-> Member(v, <<"response">>).t = "obj"]

\* the ledger of the renderer for a value parseCommentsData returned
AsCommentsData(parsed) ==
    IF parsed.isNull THEN [isNull |-> TRUE, data |-> <<>>]
    ELSE [isNull |-> FALSE,
          data |-> [i \in 1..Len(parsed.json.o) |->
                      AsComment(parsed.json.o[i].k, parsed.json.o[i].v)]]

----------------------------------------------------------------------------
(* Rendering documents under a diff *)

\* the documents of at most n lines over a set of lines; split('\n') never
\* returns an empty list
Docs(lines, n) == UNION { [1..k -> lines] : k \in 1..n }

\* one line of each block construct
RenderLines ==
    { <<"H">>,                               \* paragraph
      <<"#", " ", "H">>,                     \* header
      <<"-", "-", "-">>,                     \* horizontal rule
      <<Backtick, Backtick, Backtick>>,      \* fence
      <<>>,                                  \* blank line
      <<"-", " ", "H">>,                     \* list item
      <<"|", "H", "|">>,                     \* table row
      <<"|", "-", "|">>,                     \* table separator row
      <<">", "H">> }                         \* blockquote

\* removed text, as parseDiff joins it
RemovedTexts == { <<"R">>, <<"-", " ", "R">> }

\* the FileDiff values for a document of n lines: any set of added lines,
\* at most one entry of removed text
Diffs(n) ==
    {NullDiff} \cup
    { [isNull |-> FALSE, addedLines |-> a, removedLines |-> r] :
        a \in SUBSET (1..n),
        r \in {EmptyMap} \cup { k :> t : k \in 1..(n + 1), t \in RemovedTexts } }

InitRender ==
    /\ ParseIdle
    /\ RenderStart
    /\ UpdateIdle
    /\ GitIdle
    /\ PanelIdle
    /\ NestIdle
    /\ docLines \in Docs(RenderLines, MaxDocLines)
    /\ diff \in Diffs(Len(docLines))
    /\ showLineNumbers \in BOOLEAN
    /\ comments = NullComments

SpecRender == InitRender /\ [][NextRender]_vars

----------------------------------------------------------------------------
(* Rendering documents that carry comment markers *)

MaxCommentLines == 2    \* longest commented document, in lines
MaxComments == 2        \* most entries of a ledger

\* lines with comment markers
CommentLines ==
    { <<"a", "n", Marker1>>,
      <<Marker1, "a", "n">>,
      <<"a", "n", Marker1, "a", "n", Marker1>>,
      <<"a", "n", Marker1, " ", "1", MarkerToken(2)>>,
      <<"H", "i", MarkerToken(12)>>,
      <<"H", "i", MarkerToken(2)>>,
      <<Marker1>>,
      <<"#", " ", "H", "i">>,
      <<"H", "i">> }

\* target.text of a comment: a text of the line, or the empty string
TargetTexts == { <<"a", "n">>, <<"1">>, <<>> }

\* the Comment values an id may have in the ledger
CommentsOf(id) ==
    { Comment(id, type, text, st[1], st[2], FALSE) :
        type \in {"inline", "block"}, text \in TargetTexts,
        st \in { <<0, FALSE>>, <<1, TRUE>> } }

\* the ledgers: entries in ascending id order, each stored under its own id
Ledgers ==
    { <<>> }
    \cup { << c >> : c \in UNION { CommentsOf(id) : id \in CommentIds } }
    \cup { << c, d >> : c \in CommentsOf(1), d \in CommentsOf(2) \cup CommentsOf(12) }
    \cup { << c, d >> : c \in CommentsOf(2), d \in CommentsOf(12) }

\* commentsData || parseCommentsData(markdown): the documents carry no
\* COMMENTS-DATA block, so a missing argument leaves comments null
InitComments ==
    /\ ParseIdle
    /\ RenderStart
    /\ UpdateIdle
    /\ GitIdle
    /\ PanelIdle
    /\ NestIdle
    /\ docLines \in Docs(CommentLines, MaxCommentLines)
    /\ diff = NullDiff
    /\ showLineNumbers = FALSE
    /\ comments \in {NullComments}
                    \cup { [isNull |-> FALSE, data |-> l] :
                             l \in { m \in Ledgers : Len(m) <= MaxComments } }

SpecComments == InitComments /\ [][NextRender]_vars

----------------------------------------------------------------------------
(* Rendering documents that carry a COMMENTS-DATA block *)

MaxLedgerPrefix == 2    \* most lines before the block
MaxLedgerSuffix == 1    \* most lines after the block

Quote == "\""

\* "key": as JSON text
Key(k) == <<Quote, k, Quote, ":">>

\* a whole Comment of the ledger as JSON text; plan and response are given
\* as JSON text
EntryText(id, type, text, plan, response) ==
    <<"{">> \o Key("id") \o Digits(id) \o <<",">>
    \o Key("target") \o <<"{">> \o Key("type") \o <<Quote, type, Quote, ",">>
    \o Key("text") \o <<Quote>> \o text \o <<Quote, "}", ",">>
    \o Key("thread") \o <<"[", "]", ",">>
    \o Key("plan") \o plan \o <<",">> \o Key("response") \o response \o <<"}">>

\* bodies of a COMMENTS-DATA block, each on one line
LedgerBodies ==
    { <<"{", "}">>,                                                   \* no entry
      <<"{">> \o Key("1") \o EntryText(1, "inline", <<"H", "i">>, <<"null">>, <<"null">>) \o <<"}">>,
      <<"{">> \o Key("1") \o EntryText(1, "block", <<"-", "-", EscapedGt>>, <<"null">>, <<"null">>) \o <<"}">>,
      <<"{">> \o Key("1") \o <<"{", "}", "}">>,                       \* {"1":{}}
      <<"{">> \o Key("1") \o <<"5", "}">>,                            \* {"1":5}
      <<"[", "1", "]">>,                                              \* an array
      <<"{">>,                                                        \* not JSON
      <<"{">> \o Key("1") \o <<Quote, "-", "-", ">", Quote, "}">> }   \* '-->' in a string

\* the lines of the block around a body: as _updateComment writes it, with
\* a blank line after the opening, and on one line
LedgerBlocks ==
    { << >> }
    \cup { << Text("<!--"), Text("COMMENTS-DATA"), b, Text("-->") >> : b \in LedgerBodies }
    \cup { << Text("<!--"), << >>, Text("COMMENTS-DATA"), b, Text("-->") >> : b \in LedgerBodies }
    \cup { << Text("<!-- COMMENTS-DATA ") \o b \o Text(" -->") >> : b \in LedgerBodies }

\* lines of content around the block
LedgerContentLines ==
    { <<"H", "i">>,
      <<"H", "i", Marker1>>,
      Text("a COMMENTS-DATA") }

\* at most n lines of content
ContentDocs(n) == UNION { [1..k -> LedgerContentLines] : k \in 0..n }

\* text.split('\n') of a text of these lines: never an empty list
SplitLines(ls) == IF ls = << >> THEN << << >> >> ELSE ls

\* commentsData is not passed: comments = parseCommentsData(markdown)
InitLedgerDoc ==
    /\ ParseIdle
    /\ RenderStart
    /\ UpdateIdle
    /\ GitIdle
    /\ PanelIdle
    /\ NestIdle
    /\ docLines \in { SplitLines(pre \o blk \o post) :
                        pre \in ContentDocs(MaxLedgerPrefix), blk \in LedgerBlocks,
                        post \in ContentDocs(MaxLedgerSuffix) }
    /\ diff = NullDiff
    /\ showLineNumbers = FALSE
    /\ \E markdown \in { Explode(JoinLines(docLines)) } :
          \E parsed \in { parseCommentsData(markdown) } :
              comments = AsCommentsData(parsed)

SpecLedgerDoc == InitLedgerDoc /\ [][NextRender]_vars

----------------------------------------------------------------------------
(* Rendering lines with pipes *)

MaxTableDocLines == 2   \* longest document of these lines

\* lines with and without pipes, brackets, list markers and quote markers
TableLines ==
    { Text("a | b | c"),
      Text("[x|y](url)"),
      Text("[x|y] | a | b"),
      Text("a [ b | c | d"),
      Text("a | b"),
      Text("|a"),
      Text("- a | b | c"),
      Text("1. a | b | c"),
      Text("> a | b | c"),
      Text("  a|b|c"),
      Text("H") }

InitTable ==
    /\ ParseIdle
    /\ RenderStart
    /\ UpdateIdle
    /\ GitIdle
    /\ PanelIdle
    /\ NestIdle
    /\ docLines \in Docs(TableLines, MaxTableDocLines)
    /\ diff = NullDiff
    /\ showLineNumbers = FALSE
    /\ comments = NullComments

SpecTable == InitTable /\ [][NextRender]_vars

----------------------------------------------------------------------------
(* _updateComment (src/src/markdownPreview.ts:1766-1841) *)

MaxEdits == 2           \* most edits applied to one document

\* !value
Falsy(v) ==
    \/ v.t \in {"undefined", "null"}
    \/ v.t = "bool" /\ ~v.b
    \/ v.t = "num" /\ v.n = 0
    \/ v.t = "str" /\ v.s = <<>>

\* { content: content, status: status, editable: true }
NewSubObject(content, status) ==
    [t |-> "obj",
     o |-> << [k |-> <<"content">>, v |-> [t |-> "str", s |-> content]],
              [k |-> <<"status">>, v |-> [t |-> "str", s |-> <<status>>]],
              [k |-> <<"editable">>, v |-> [t |-> "bool", b |-> TRUE]] >>]

\* value[key] = v; the module is strict code, where the write raises a
\* TypeError on a primitive value; JSON.stringify does not show a property
\* written on an array
Assign(value, key, v) ==
    IF value.t = "obj"
    THEN [ok |-> TRUE, v |-> [value EXCEPT !.o = SetMember(@, key, v)]]
    ELSE [ok |-> value.t = "arr", v |-> value]

\* the comment after the branch for type 'plan' or 'response'
UpdatedComment(comment, type, content) ==
    IF Falsy(Member(comment, <<type>>))
    THEN Assign(comment, <<type>>,
                NewSubObject(content, IF type = "plan" THEN "pending" ELSE "draft"))
    ELSE [ok |-> Assign(Member(comment, <<type>>), <<"content">>,
                        [t |-> "str", s |-> content]).ok,
          v |-> Assign(comment, <<type>>,
                       Assign(Member(comment, <<type>>), <<"content">>,
                              [t |-> "str", s |-> content]).v).v]

\* `<!--\nCOMMENTS-DATA\n${json}\n-->`
CommentsBlock(json) ==
    Text("<!--") \o <<"\n">> \o Text("COMMENTS-DATA") \o <<"\n">> \o json
    \o <<"\n">> \o Text("-->")

UpdateOutcomeAnyType(text, parsed, m, req) ==
    IF parsed.isNull \/ Falsy(Member(parsed.json, Digits(req.commentId)))
    THEN [message |-> "Comment not found", edited |-> FALSE, text |-> text]
    ELSE [message |-> "none", edited |-> TRUE,
          text |-> SubSeq(text, 1, m.index - 1)
                   \o CommentsBlock(
                        Stringify(
                            Assign(parsed.json, Digits(req.commentId),
                                   UpdatedComment(
                                        Member(parsed.json, Digits(req.commentId)),
                                        req.type, req.content).v).v,
                            0))
                   \o Drop(text, m.index + m.length)]

\* What _updateComment does with the text it read, the value parsed from it
\* and the match m of its block: the message it shows and the text it puts
\* in place of the document, if any.
UpdateOutcome(text, parsed, m, req) ==
    IF parsed.isNull \/ Falsy(Member(parsed.json, Digits(req.commentId)))
    THEN [message |-> "Comment not found", edited |-> FALSE, text |-> text]
    ELSE IF ~m.found
    THEN [message |-> "COMMENTS-DATA block not found", edited |-> FALSE, text |-> text]
    ELSE IF req.type \notin {"plan", "response"}
    THEN [message |-> "Invalid comment type", edited |-> FALSE, text |-> text]
    ELSE IF ~UpdatedComment(Member(parsed.json, Digits(req.commentId)),
                            req.type, req.content).ok
    THEN [message |-> "Failed to update comment", edited |-> FALSE, text |-> text]
    ELSE [message |-> "none", edited |-> TRUE,
          text |-> SubSeq(text, 1, m.index - 1)
                   \o CommentsBlock(
                        Stringify(
                            Assign(parsed.json, Digits(req.commentId),
                                   UpdatedComment(
                                        Member(parsed.json, Digits(req.commentId)),
                                        req.type, req.content).v).v,
                            0))
                   \o Drop(text, m.index + m.length)]

\* the call, up to the await of the import
UpdateCommentCall(commentId, type, content) ==
    /\ pcU \in {"idle", "done", "merged"}
    /\ edits < MaxEdits
    /\ markdownContent' = document
    /\ request' = [commentId |-> commentId, type |-> type, content |-> content]
    /\ pcU' = "imported"
    /\ UNCHANGED << document, parsedData, message, edits >>
    /\ UNCHANGED << diffVars, renderVars, gitVars, panelVars, nestVars >>

\* from the import to the return
UpdateCommentRun ==
    /\ pcU = "imported"
    /\ \E parsed \in { parseCommentsData(markdownContent) } :
         \E m \in { CommentsBlockMatch(markdownContent) } :
           \E out \in { UpdateOutcome(markdownContent, parsed, m, request) } :
              /\ parsedData' = parsed
              /\ message' = out.message
              /\ document' = IF out.edited THEN out.text ELSE document
              /\ edits' = IF out.edited THEN edits + 1 ELSE edits
    /\ pcU' = "done"
    /\ UNCHANGED << markdownContent, request >>
    /\ UNCHANGED << diffVars, renderVars, gitVars, panelVars, nestVars >>

\* the ids of a ledger: the keys of its object
LedgerIds(json) == { NumberOf(json.o[i].k) : i \in 1..Len(json.o) }

\* "Never reuse comment IDs - Always use the next available sequential
\* number", numbers starting from 1
NextCommentId(json) ==
    IF json.o = <<>> THEN 1 ELSE SetMax(LedgerIds(json)) + 1

\* the comment data structure built for a new comment: a first thread item,
\* no plan and a draft response
NewComment(id, type) ==
    [t |-> "obj",
     o |-> << [k |-> <<"id">>, v |-> [t |-> "num", n |-> id]],
              [k |-> <<"target">>,
               v |-> [t |-> "obj",
                      o |-> << [k |-> <<"type">>, v |-> [t |-> "str", s |-> <<type>>]],
                               [k |-> <<"text">>, v |-> [t |-> "str", s |-> <<"H", "i">>]] >>]],
              [k |-> <<"thread">>,
               v |-> [t |-> "arr", a |-> << [t |-> "str", s |-> <<"c">>] >>]],
              [k |-> <<"plan">>, v |-> [t |-> "null"]],
              [k |-> <<"response">>, v |-> NewSubObject(<<"r">>, "draft")] >>]

MergedLedgerReuse(json, type) ==
    Assign(json, Digits(NextCommentId(json) - 1),
           NewComment(NextCommentId(json) - 1, type)).v

\* "Add new comments to the object": the ledger with one more comment
MergedLedger(json, type) ==
    Assign(json, Digits(NextCommentId(json)), NewComment(NextCommentId(json), type)).v

\* Merging one new comment into the document (the add-comments command):
\* read the block, parse it, add the comment, re-serialize and replace the
\* block, or create the block at the end of a file that has none.
MergeComment(type) ==
    /\ pcU \in {"idle", "done", "merged"}
    /\ edits < MaxEdits
    /\ \E m \in { CommentsBlockMatch(document) },
          parsed \in { parseCommentsData(document) } :
          /\ m.found => ~parsed.isNull
          /\ \E old \in { IF parsed.isNull THEN [t |-> "obj", o |-> <<>>]
                           ELSE parsed.json } :
                /\ request' = [commentId |-> NextCommentId(old), type |-> type,
                               content |-> <<>>]
                /\ parsedData' = [isNull |-> FALSE, json |-> MergedLedger(old, type)]
                /\ document' =
                      IF m.found
                      THEN SubSeq(document, 1, m.index - 1)
                           \o CommentsBlock(Stringify(MergedLedger(old, type), 0))
                           \o Drop(document, m.index + m.length)
                      ELSE document \o <<"\n">>
                           \o CommentsBlock(Stringify(MergedLedger(old, type), 0))
    /\ markdownContent' = document
    /\ message' = "none"
    /\ edits' = edits + 1
    /\ pcU' = "merged"
    /\ UNCHANGED << diffVars, renderVars, gitVars, panelVars, nestVars >>

\* the arguments of the calls
UpdateIds == {1, 2}
UpdateTypes == {"plan", "response", "note"}
UpdateContents == { <<"o", "k">>, <<"-", "-", ">">> }

NextLedger ==
    \/ \E commentId \in UpdateIds, type \in UpdateTypes, content \in UpdateContents :
          UpdateCommentCall(commentId, type, content)
    \/ UpdateCommentRun
    \/ \E type \in {"inline", "block"} : MergeComment(type)

\* a plan or a response as JSON text
SubObjectText(content, status) ==
    <<"{">> \o Key("content") \o <<Quote>> \o content \o <<Quote, ",">>
    \o Key("status") \o <<Quote, status, Quote, ",">>
    \o Key("editable") \o <<"false", "}">>

\* bodies of the COMMENTS-DATA block of an edited document
UpdateBodies ==
    { <<"{", "}">>,
      <<"{">> \o Key("1") \o EntryText(1, "inline", <<"H", "i">>, <<"null">>, <<"null">>)
      \o <<"}">>,
      <<"{">> \o Key("1")
      \o EntryText(1, "inline", <<"H", "i">>, SubObjectText(<<"p">>, "approved"), <<"null">>)
      \o <<",">> \o Key("2")
      \o EntryText(2, "block", <<"-", "-", EscapedGt>>, <<"null">>, <<"null">>)
      \o <<"}">>,
      <<"{">> \o Key("1") \o <<"{">> \o Key("id") \o <<"1", "}", ",">>
      \o Key("2") \o <<"{">> \o Key("id") \o <<"2", "}", ",">>
      \o Key("3") \o <<"{">> \o Key("id") \o <<"3", "}", "}">>,
      <<"{">> \o Key("1") \o <<"5", "}">>,
      <<"[", "1", "]">>,
      <<"{">> }

\* the documents _updateComment is called on: a block, on one line or as
\* _updateComment writes it, with or without a line before and after it
UpdateDocuments ==
    { JoinLines(pre \o blk \o post) :
        pre \in { << >>, << <<"H", "i">> >> },
        blk \in { << >> }
                \cup { << Text("<!--"), Text("COMMENTS-DATA"), b, Text("-->") >> :
                         b \in UpdateBodies }
                \cup { << Text("<!-- COMMENTS-DATA ") \o b \o Text(" -->") >> :
                         b \in UpdateBodies },
        post \in { << >>, << <<"H", "i">> >> } }

InitLedger ==
    /\ ParseIdle
    /\ RenderIdle
    /\ GitIdle
    /\ PanelIdle
    /\ NestIdle
    /\ pcU = "idle"
    /\ document \in { Explode(d) : d \in UpdateDocuments }
    /\ markdownContent = <<>>
    /\ request = [commentId |-> 0, type |-> "none", content |-> <<>>]
    /\ parsedData = [isNull |-> TRUE, json |-> [t |-> "null"]]
    /\ message = "none"
    /\ edits = 0

SpecLedger == InitLedger /\ [][NextLedger]_vars

----------------------------------------------------------------------------
(* Rendering lists *)

MaxListDocLines == 4    \* longest document of list lines

\* list items at indentation 0, 1 and 2, and a paragraph
ListLines ==
    { Text("- a"), Text(" - a"), Text("  - a"), Text("H") }

InitList ==
    /\ ParseIdle
    /\ RenderStart
    /\ UpdateIdle
    /\ GitIdle
    /\ PanelIdle
    /\ NestIdle
    /\ docLines \in Docs(ListLines, MaxListDocLines)
    /\ diff = NullDiff
    /\ showLineNumbers = FALSE
    /\ comments = NullComments

SpecList == InitList /\ [][NextRender]_vars

----------------------------------------------------------------------------
(* getGitDiff (src/unnamed/part_001:15-80) *)

MaxLineCount == 2       \* most lines of the document

\* the FileDiff of a file that is not tracked, with every line added
NewFileDiffFromZero(n) ==
    [isNull |-> FALSE, isNew |-> TRUE, hunks |-> <<>>,
     addedLines |-> 0..(n - 1), removedLines |-> EmptyMap]

NewFileDiff(n) ==
    [isNull |-> FALSE, isNew |-> TRUE, hunks |-> <<>>,
     addedLines |-> 1..n, removedLines |-> EmptyMap]

\* the FileDiff of a tracked file without diff output
UnchangedFileDiff ==
    [isNull |-> FALSE, isNew |-> FALSE, hunks |-> <<>>,
     addedLines |-> {}, removedLines |-> EmptyMap]

\* return value: getGitDiff resolves to d
GitReturn(d) ==
    /\ fileDiff' = d
    /\ pcG' = "returned"

\* parseDiff(relativePath, output) starts
ParseCalled ==
    /\ pc' = "scan"
    /\ diffInput' = <<>>
    /\ hunks' = <<>>
    /\ addedLines' = {}
    /\ removedLines' = EmptyMap
    /\ newLineNumber' = 0
    /\ oldLineNumber' = 0
    /\ pendingRemovals' = <<>>
    /\ removalInsertPoint' = 0
    /\ pcG' = "parsing"
    /\ UNCHANGED fileDiff

\* no workspace folder holds the document
GitNoFolder ==
    /\ pcG = "called"
    /\ ~workspaceFolder
    /\ GitReturn(NullFileDiff)
    /\ UNCHANGED << workspaceFolder, lineCount, isTracked, stdout, unstagedDiff >>
    /\ UNCHANGED << diffVars, renderVars, ledgerVars, panelVars, nestVars >>

\* isFileTracked resolved: git ls-files succeeded (tracked) or failed; for
\* an untracked file document.lineCount is read, and is n
GitTracked(tracked, n) ==
    /\ pcG = "called"
    /\ workspaceFolder
    /\ isTracked' = IF tracked THEN "yes" ELSE "no"
    /\ IF tracked
       THEN pcG' = "diffing" /\ UNCHANGED << fileDiff, lineCount >>
       ELSE lineCount' = n /\ GitReturn(NewFileDiff(n))
    /\ UNCHANGED << workspaceFolder, stdout, unstagedDiff >>
    /\ UNCHANGED << diffVars, renderVars, ledgerVars, panelVars, nestVars >>

\* git diff <diffBase> -- <path> settled with out
GitDiffBase(out) ==
    /\ pcG = "diffing"
    /\ stdout' = out
    /\ CASE out = "error" -> GitReturn(NullFileDiff) /\ UNCHANGED diffVars
         [] out = "blank" -> pcG' = "unstaged" /\ UNCHANGED << fileDiff, diffVars >>
         [] OTHER -> ParseCalled
    /\ UNCHANGED << workspaceFolder, lineCount, isTracked, unstagedDiff >>
    /\ UNCHANGED << renderVars, ledgerVars, panelVars, nestVars >>

\* git diff -- <path> settled with out
GitDiffUnstaged(out) ==
    /\ pcG = "unstaged"
    /\ unstagedDiff' = out
    /\ CASE out = "error" -> GitReturn(NullFileDiff) /\ UNCHANGED diffVars
         [] out = "blank" -> GitReturn(UnchangedFileDiff) /\ UNCHANGED diffVars
         [] OTHER -> ParseCalled
    /\ UNCHANGED << workspaceFolder, lineCount, isTracked, stdout >>
    /\ UNCHANGED << renderVars, ledgerVars, panelVars, nestVars >>

\* the output has a character that is no white space
NotBlank(lines) == \E k \in 1..Len(lines) : Trim(lines[k].text) # <<>>

\* parseDiff returned, and getGitDiff returns its FileDiff
GitParsed ==
    /\ pcG = "parsing"
    /\ pc = "done"
    /\ NotBlank(diffInput)
    /\ GitReturn([isNull |-> FALSE, isNew |-> FALSE, hunks |-> hunks,
                  addedLines |-> addedLines, removedLines |-> removedLines])
    /\ UNCHANGED << workspaceFolder, lineCount, isTracked, stdout, unstagedDiff >>
    /\ UNCHANGED << diffVars, renderVars, ledgerVars, panelVars, nestVars >>

ExecOutcomes == {"blank", "text", "error"}

NextGit ==
    \/ GitNoFolder
    \/ \E tracked \in BOOLEAN, n \in 1..MaxLineCount : GitTracked(tracked, n)
    \/ \E out \in ExecOutcomes : GitDiffBase(out)
    \/ \E out \in ExecOutcomes : GitDiffUnstaged(out)
    \/ GitParsed
    \/ NextParseDiff

InitGit ==
    /\ ParseIdle
    /\ RenderIdle
    /\ UpdateIdle
    /\ PanelIdle
    /\ NestIdle
    /\ pcG = "called"
    /\ workspaceFolder \in BOOLEAN
    /\ lineCount = 0
    /\ isTracked = "unknown"
    /\ stdout = "unread"
    /\ unstagedDiff = "unread"
    /\ fileDiff = NullFileDiff

SpecGit == InitGit /\ [][NextGit]_vars

----------------------------------------------------------------------------
(* Rendering documents that change from one block construct to another *)

MaxBlockDocLines == 4   \* longest document of these lines

\* a line of each construct that has a parser state, the lines that open
\* and close a COMMENTS-DATA block, a marker line, a paragraph, a blank line
BlockLines ==
    { Text("H"),
      Text("- H"),
      Text("|H|"),
      <<Backtick, Backtick, Backtick>>,
      Explode(<<"<", "!", "-", "-", " ">>) \o Text("COMMENTS-DATA"),
      Text("-->"),
      <<Marker1>>,
      <<>> }

InitBlocks ==
    /\ ParseIdle
    /\ RenderStart
    /\ UpdateIdle
    /\ GitIdle
    /\ PanelIdle
    /\ NestIdle
    /\ docLines \in Docs(BlockLines, MaxBlockDocLines)
    /\ diff = NullDiff
    /\ showLineNumbers = FALSE
    /\ comments = NullComments

SpecBlocks == InitBlocks /\ [][NextRender]_vars

----------------------------------------------------------------------------
(* Rendering fenced code blocks *)

MaxCodeDocLines == 4    \* longest document of these lines

\* the fence and lines a code block may hold: text with a character that
\* escapeHtml rewrites, a blank line, a comment marker, a line that
\* mentions COMMENTS-DATA
CodeDocLines ==
    { <<Backtick, Backtick, Backtick>>,
      Text("a<b"),
      <<>>,
      <<Marker1>>,
      Text("a COMMENTS-DATA") }

\* the FileDiff values without removed text for a document of n lines
AddedDiffs(n) ==
    { [isNull |-> FALSE, addedLines |-> a, removedLines |-> EmptyMap] :
        a \in SUBSET (1..n) }

InitCode ==
    /\ ParseIdle
    /\ RenderStart
    /\ UpdateIdle
    /\ GitIdle
    /\ PanelIdle
    /\ NestIdle
    /\ docLines \in Docs(CodeDocLines, MaxCodeDocLines)
    /\ diff \in AddedDiffs(Len(docLines))
    /\ showLineNumbers = FALSE
    /\ comments = NullComments

SpecCode == InitCode /\ [][NextRender]_vars

----------------------------------------------------------------------------
(* Rendering tables under a diff *)

MaxRowDocLines == 3     \* longest document of these lines

\* a table row, a separator row, a paragraph
RowLines == { Text("|H|"), Text("|-|"), Text("H") }

InitTableRows ==
    /\ ParseIdle
    /\ RenderStart
    /\ UpdateIdle
    /\ GitIdle
    /\ PanelIdle
    /\ NestIdle
    /\ docLines \in Docs(RowLines, MaxRowDocLines)
    /\ diff \in AddedDiffs(Len(docLines))
    /\ showLineNumbers = FALSE
    /\ comments = NullComments

SpecTableRows == InitTableRows /\ [][NextRender]_vars

----------------------------------------------------------------------------
(* Rendering paragraphs of inline constructs *)

MaxInlineDocLines == 2  \* longest document of these lines

\* a paragraph of each inline construct, and paragraphs with text around
\* and between constructs
InlineLines ==
    { Text("**b**"),
      Text("__b__"),
      Text("*i*"),
      Text("_i_"),
      Text("~~d~~"),
      <<Backtick, "c", Backtick>>,
      Text("[t](u)"),
      Text("![a](u)"),
      Text("![](u)"),
      Text("x **b** y"),
      Text("**b** *i*"),
      Text("x") }

InitInline ==
    /\ ParseIdle
    /\ RenderStart
    /\ UpdateIdle
    /\ GitIdle
    /\ PanelIdle
    /\ NestIdle
    /\ docLines \in Docs(InlineLines, MaxInlineDocLines)
    /\ diff = NullDiff
    /\ showLineNumbers = FALSE
    /\ comments = NullComments

SpecInline == InitInline /\ [][NextRender]_vars

----------------------------------------------------------------------------
(* parseDiff on changes of comment markers and of white space *)

\* a hunk header, and removed, added and context lines whose contents are
\* equal, differ in a comment marker, in white space at an end, or in a
\* letter
MarkerDiffLines ==
    { HeaderLine(1, 2, 1, 3) }
    \cup { TextLine(t) :
             t \in { <<"-", "a">>, <<"-", "a", Marker1>>,
                     <<"+", "a">>, <<"+", "a", Marker1>>,
                     <<"+", " ", "a">>, <<"+", "a", " ">>, <<"+", "b">>,
                     <<" ", "a">>, Text("+++ b") } }

NextMarkerDiff ==
    \/ \E line \in MarkerDiffLines :
          \/ HunkHeader(line)
          \/ SkippedLine(line)
          \/ AddedLine(line)
          \/ RemovedLine(line)
          \/ ContextLine(line)
    \/ EndOfInput

SpecMarkerDiff == InitParseDiff /\ [][NextMarkerDiff]_vars

----------------------------------------------------------------------------
(* parseDiff on the diff of one file whose lines start with dashes or *)
(* plus signs *)

\* the file headers git writes before the first hunk
FileHeaderLines == { TextLine(Text("--- x")), TextLine(Text("+++ x")) }

\* a hunk header and body lines: a removed and an added letter, a removed
\* horizontal rule (content '---'), an added line of content '++a', and a
\* context line
RuleDiffLines ==
    { HeaderLine(1, 2, 1, 3) }
    \cup FileHeaderLines
    \cup { TextLine(t) :
             t \in { Text("-a"), Text("----"), Text("+a"), Text("+++a"),
                     Text(" a") } }

\* the diff of one file: its file headers stand before the first hunk
NextRuleDiff ==
    \/ \E line \in RuleDiffLines :
          /\ line \in FileHeaderLines => hunks = <<>>
          /\ \/ HunkHeader(line)
             \/ SkippedLine(line)
             \/ AddedLine(line)
             \/ RemovedLine(line)
             \/ ContextLine(line)
    \/ EndOfInput

SpecRuleDiff == InitParseDiff /\ [][NextRuleDiff]_vars

----------------------------------------------------------------------------
(* extractNewFileContent (src/src/core/diffParser.ts:150-176) and parseDiff *)
(* on the diff of one hunk *)

\* line.match(/^@@ /): of the lines read here exactly the hunk headers
\* start with '@@ '
startsHunk(line) == line.hunk

\* the for loop of extractNewFileContent over the lines from position i on
RECURSIVE ExtractLoop(_, _, _, _)
ExtractLoop(lines, i, inHunk, contentLines) ==
    IF i > Len(lines) THEN contentLines
    ELSE IF startsHunk(lines[i]) THEN ExtractLoop(lines, i + 1, TRUE, contentLines)
    ELSE IF ~inHunk THEN ExtractLoop(lines, i + 1, inHunk, contentLines)
    ELSE IF isAddedLine(lines[i]) \/ StartsWith(lines[i].text, <<" ">>)
    THEN ExtractLoop(lines, i + 1, inHunk,
                     Append(contentLines, Tail(lines[i].text)))
    ELSE ExtractLoop(lines, i + 1, inHunk, contentLines)

\* the returned text, contentLines.join('\n')
extractNewFileContent(lines) == JoinLines(ExtractLoop(lines, 1, FALSE, <<>>))

\* the header of a hunk whose new start is 1, and body lines without
\* comment markers: removed, added and context letters, an added line that
\* ends in a space, the empty string that split('\n') leaves after a final
\* newline, and a file header
NewFileLineSet ==
    { HeaderLine(1, 2, 1, 3) }
    \cup { TextLine(t) :
             t \in { Text("-a"), Text("+a"), Text("+b"), Text("+a "),
                     Text(" a"), <<>>, Text("+++ x") } }

\* the diff of one hunk: the header is read once
NextNewFile ==
    \/ \E line \in NewFileLineSet :
          /\ line.hunk => hunks = <<>>
          /\ \/ HunkHeader(line)
             \/ SkippedLine(line)
             \/ AddedLine(line)
             \/ RemovedLine(line)
             \/ ContextLine(line)
    \/ EndOfInput

SpecNewFile == InitParseDiff /\ [][NextNewFile]_vars

----------------------------------------------------------------------------
(* _updateComment while the document is edited *)

\* what the user types at the end of the document
Typed == "Z"

\* An edit of the document in the editor.  Nothing makes it wait for an
\* _updateComment that awaits its import.
TypeInDocument ==
    /\ edits < MaxEdits
    /\ document' = document \o <<"\n", Typed>>
    /\ edits' = edits + 1
    /\ UNCHANGED << pcU, markdownContent, request, parsedData, message >>
    /\ UNCHANGED << diffVars, renderVars, gitVars, panelVars, nestVars >>

NextTyping ==
    \/ \E commentId \in UpdateIds, type \in UpdateTypes, content \in UpdateContents :
          UpdateCommentCall(commentId, type, content)
    \/ UpdateCommentRun
    \/ TypeInDocument

SpecTyping == InitLedger /\ [][NextTyping]_vars

----------------------------------------------------------------------------
(* _update (src/src/markdownPreview.ts:1843-1857) and the events that *)
(* call it *)

MaxUpdates == 3         \* most _update calls started

\* the events that call _update without waiting for it: a change of the
\* document, of the active editor, under .git, a refresh, a change of the
\* view state
UpdateEvents == {"document", "editor", "git", "refresh", "viewState"}

\* the events that change what a preview shows
WorldEvents == {"document", "git"}

\* An event fires and its handler calls _update, which runs up to the
\* await of getGitDiff.
UpdateStarted(event) ==
    /\ Len(updates) < MaxUpdates
    /\ world' = IF event \in WorldEvents THEN world + 1 ELSE world
    /\ updates' = Append(updates, [pc |-> "diff", diff |-> 0, text |-> 0])
    /\ UNCHANGED webviewHtml
    /\ UNCHANGED << diffVars, renderVars, ledgerVars, gitVars, nestVars >>

\* getGitDiff resolves for call n: the diff is the one of the present state
DiffResolved(n) ==
    /\ n \in 1..Len(updates)
    /\ updates[n].pc = "diff"
    /\ updates' = [updates EXCEPT ![n].pc = "branch", ![n].diff = world]
    /\ UNCHANGED << world, webviewHtml >>
    /\ UNCHANGED << diffVars, renderVars, ledgerVars, gitVars, nestVars >>

\* getGitBranch resolves for call n
BranchResolved(n) ==
    /\ n \in 1..Len(updates)
    /\ updates[n].pc = "branch"
    /\ updates' = [updates EXCEPT ![n].pc = "status"]
    /\ UNCHANGED << world, webviewHtml >>
    /\ UNCHANGED << diffVars, renderVars, ledgerVars, gitVars, nestVars >>

\* getGitStatus resolves for call n; _getHtmlForWebview reads the text of
\* the document and awaits the render
StatusResolved(n) ==
    /\ n \in 1..Len(updates)
    /\ updates[n].pc = "status"
    /\ updates' = [updates EXCEPT ![n].pc = "html", ![n].text = world]
    /\ UNCHANGED << world, webviewHtml >>
    /\ UNCHANGED << diffVars, renderVars, ledgerVars, gitVars, nestVars >>

\* _getHtmlForWebview resolves for call n, which assigns webview.html
HtmlAssigned(n) ==
    /\ n \in 1..Len(updates)
    /\ updates[n].pc = "html"
    /\ webviewHtml' = [by |-> n, diff |-> updates[n].diff, text |-> updates[n].text]
    /\ updates' = [updates EXCEPT ![n].pc = "done"]
    /\ UNCHANGED world
    /\ UNCHANGED << diffVars, renderVars, ledgerVars, gitVars, nestVars >>

NextPanel ==
    \/ \E event \in UpdateEvents : UpdateStarted(event)
    \/ \E n \in 1..MaxUpdates :
          \/ DiffResolved(n)
          \/ BranchResolved(n)
          \/ StatusResolved(n)
          \/ HtmlAssigned(n)

\* the panel has been created: its constructor has called _update
InitPanel ==
    /\ ParseIdle
    /\ RenderIdle
    /\ UpdateIdle
    /\ GitIdle
    /\ NestIdle
    /\ updates = << [pc |-> "diff", diff |-> 0, text |-> 0] >>
    /\ world = 0
    /\ webviewHtml = [by |-> 0, diff |-> 0, text |-> 0]

SpecPanel == InitPanel /\ [][NextPanel]_vars

----------------------------------------------------------------------------
(* buildNestedList (src/src/core/diffParser.ts:761-818), one step per *)
(* iteration of its loop, call and return *)

MaxItems == 4           \* most items of a list
MaxIndent == 2          \* deepest indentation of an item

\* the call at the top of the stack
Top == frames[Len(frames)]

\* the return of the innermost call with endIdx i: the caller continues at
\* i = nested.endIdx, and flushList receives the result of the outermost
\* call
Return(i) ==
    IF Len(frames) = 1
    THEN /\ frames' = <<>>
         /\ endIdx' = i
         /\ pcL' = "returned"
    ELSE /\ frames' = [SubSeq(frames, 1, Len(frames) - 1)
                          EXCEPT ![Len(frames) - 1].i = i]
         /\ UNCHANGED << endIdx, pcL >>

\* buildNestedList(items, startIdx, currentIndent) is entered
Call(startIdx, currentIndent) ==
    /\ frames' = Append(frames, [startIdx |-> startIdx,
                                 currentIndent |-> currentIndent,
                                 i |-> startIdx])
    /\ UNCHANGED << endIdx, pcL >>

\* the loop ends: the items are exhausted or the item is indented less
\* than this level
LoopBreak ==
    /\ pcL = "loop"
    /\ IF Top.i > Len(indents) THEN TRUE
       ELSE indents[Top.i] < Top.currentIndent
    /\ Return(Top.i)
    /\ UNCHANGED indents
    /\ UNCHANGED << diffVars, renderVars, ledgerVars, gitVars, panelVars >>

\* an item of this level that no deeper item follows: i++
ItemAdded ==
    /\ pcL = "loop"
    /\ Top.i <= Len(indents)
    /\ indents[Top.i] = Top.currentIndent
    /\ ~(Top.i + 1 <= Len(indents) /\ indents[Top.i + 1] > Top.currentIndent)
    /\ frames' = [frames EXCEPT ![Len(frames)].i = @ + 1]
    /\ UNCHANGED << pcL, indents, endIdx >>
    /\ UNCHANGED << diffVars, renderVars, ledgerVars, gitVars, panelVars >>

\* an item of this level that a deeper item follows: the call for the
\* nested list
ItemWithNested ==
    /\ pcL = "loop"
    /\ Top.i <= Len(indents)
    /\ indents[Top.i] = Top.currentIndent
    /\ Top.i + 1 <= Len(indents) /\ indents[Top.i + 1] > Top.currentIndent
    /\ Call(Top.i + 1, indents[Top.i + 1])
    /\ UNCHANGED indents
    /\ UNCHANGED << diffVars, renderVars, ledgerVars, gitVars, panelVars >>

DeeperItemPastLevel ==
    /\ pcL = "loop"
    /\ Top.i <= Len(indents)
    /\ indents[Top.i] > Top.currentIndent
    /\ Call(Top.i, indents[Top.i] + 1)
    /\ UNCHANGED indents
    /\ UNCHANGED << diffVars, renderVars, ledgerVars, gitVars, panelVars >>

\* an item indented deeper than this level: the call that treats it as
\* nested
DeeperItem ==
    /\ pcL = "loop"
    /\ Top.i <= Len(indents)
    /\ indents[Top.i] > Top.currentIndent
    /\ Call(Top.i, indents[Top.i])
    /\ UNCHANGED indents
    /\ UNCHANGED << diffVars, renderVars, ledgerVars, gitVars, panelVars >>

NextNestedList == LoopBreak \/ ItemAdded \/ ItemWithNested \/ DeeperItem

\* flushList has called buildNestedList(listItems, 0, listItems[0].indent)
\* on a list of at least one item (items are numbered from 1)
InitNestedList ==
    /\ ParseIdle
    /\ RenderIdle
    /\ UpdateIdle
    /\ GitIdle
    /\ PanelIdle
    /\ pcL = "loop"
    /\ indents \in UNION { [1..n -> 0..MaxIndent] : n \in 1..MaxItems }
    /\ frames = << [startIdx |-> 1, currentIndent |-> indents[1], i |-> 1] >>
    /\ endIdx = 0

\* the function runs on: no step that can be taken is put off for ever
SpecNestedList ==
    InitNestedList /\ [][NextNestedList]_vars /\ WF_vars(NextNestedList)

----------------------------------------------------------------------------
(* Properties of the rendered output *)

\* markup that decorates added content
AddedMarkup ==
    {" class=\"diff-line added clickable\"", " class=\"diff-line added\"",
     " class=\"diff-row-added\"", "<div class=\"diff-table-wrapper added\""}

\* markup that decorates removed content
RemovedMarkup ==
    {"<div class=\"diff-removed-block\">", " class=\"diff-line removed\"",
     " class=\"diff-row-removed\"", " class=\"removed-content\"",
     " class=\"removed-content-list\""}

\* C6: a render without a diff, of a document without comment markers or
\* ledger, returns markup that holds data-line="N" for every non-blank
\* source line N and holds neither added nor removed decoration.
C6_DataLineForEveryLine ==
    (pcR = "done" /\ diff.isNull /\ comments.isNull) =>
        /\ \A n \in 1..Len(docLines) :
               Trim(docLines[n]) # <<>> => Includes(html, DataLineAttr(n))
        /\ Range(html) \cap (AddedMarkup \cup RemovedMarkup) = {}

\* the positions of the removed text R in the output
RemovedTextAt == { p \in 1..Len(html) : html[p] = "R" }

\* C7: every entry N of removedLines with 1 <= N <= lineCount + 1 has its
\* removed text in the output exactly once, and before the markup of
\* source line N when that line has any.
C7_RemovedTextEmittedOnce ==
    (pcR = "done" /\ ~diff.isNull) =>
        \A n \in DOMAIN diff.removedLines :
            (1 <= n /\ n <= Len(docLines) + 1) =>
                /\ Cardinality(RemovedTextAt) = 1
                /\ \A p \in RemovedTextAt :
                       \A q \in Occurrences(html, DataLineAttr(n)) : p < q

\* the positions of the badges of comment id in the output
BadgesOf(id) == Occurrences(html, BadgeIdAttr \o Digits(id) \o BadgeOnclick)

\* the positions of the thread panels of comment id in the output
PanelsOf(id) ==
    Occurrences(html, ThreadPanelOpen \o CommentThreadPrefix \o Digits(id) \o <<"\"">>)

\* C8: the output of one render holds at most one badge and at most one
\* thread panel per comment id.
C8_CommentRenderedAtMostOnce ==
    pcR = "done" =>
        \A id \in CommentIds :
            /\ Cardinality(BadgesOf(id)) <= 1
            /\ Cardinality(PanelsOf(id)) <= 1

\* C9: every comment id that has a badge in the output has exactly one
\* thread panel, inside the thread container at the end of the output.
C9_BadgeHasThreadPanel ==
    pcR = "done" =>
        \A id \in CommentIds :
            BadgesOf(id) # {} =>
                /\ Cardinality(PanelsOf(id)) = 1
                /\ \A p \in PanelsOf(id) :
                       \E q \in 1..(p - 1) :
                           html[q] = "<div class=\"comment-threads-container\">"

\* position p of h lies inside the markup of a tag: the last '<' before
\* it has no '>' after it
InsideTag(h, p) ==
    \E q \in 1..(p - 1) :
        /\ h[q] = "<"
        /\ \A r \in (q + 1)..(p - 1) : h[r] # ">"

\* position p of h lies inside a badge that starts earlier
InsideBadge(h, p) ==
    \E q \in Occurrences(h, BadgeOpen) :
        /\ q < p
        /\ \A r \in q..(p - 1) : ~MatchAt(h, BadgeClose, r)

\* C10: no badge of the output starts inside the markup of a tag or inside
\* another badge (a badge is put after an occurrence of the target text in
\* the text content of the line).
C10_BadgeInTextContent ==
    pcR = "done" =>
        \A p \in Occurrences(html, BadgeOpen) :
            ~InsideTag(html, p) /\ ~InsideBadge(html, p)

\* the comments of the ledger whose marker stands on the rendered line k
\* (a line that is not a marker alone) and whose target has the given type
MarkedOn(k, type) ==
    { CommentOf(comments.data, MarkerId(docLines[k][j])) :
        j \in { i \in 1..Len(docLines[k]) :
                  /\ IsMarker(docLines[k][i])
                  /\ HasComment(comments.data, MarkerId(docLines[k][i]))
                  /\ CommentOf(comments.data, MarkerId(docLines[k][i])).target.type = type } }

\* C11: every inline comment of the ledger whose marker is on a rendered
\* line has a badge in the output, also when its target text is empty or
\* does not occur in the line.
C11_InlineCommentGetsBadge ==
    (pcR = "done" /\ ~comments.isNull) =>
        \A k \in 1..Len(docLines) :
            ~isMarkerLine(docLines[k]) =>
                \A c \in MarkedOn(k, "inline") : BadgesOf(c.id) # {}

\* a badge of comment id stands immediately before a block element: its
\* highlight span closes right after it and an element opens
BadgeBeforeElement(id) ==
    \E p \in BadgesOf(id) :
        \E q \in p..Len(html) :
            /\ MatchAt(html, BadgeClose \o <<"</span>">>, q)
            /\ \A r \in p..(q - 1) : ~MatchAt(html, BadgeClose, r)
            /\ q + Len(BadgeClose) + 1 <= Len(html)
            /\ html[q + Len(BadgeClose) + 1] \in TagHeads

\* C12: a marker alone on its line, for a block comment of the ledger,
\* gives a badge immediately before the element of the next line that is
\* no marker line, and the marker line itself renders nothing.
C12_BlockMarkerLineBadgesNextElement ==
    (pcR = "done" /\ ~comments.isNull) =>
        \A k \in 1..(Len(docLines) - 1) :
            (isMarkerLine(docLines[k]) /\ ~isMarkerLine(docLines[k + 1])) =>
                /\ ~Includes(html, DataLineAttr(k))
                /\ \A c \in MarkedOn(k, "block") : BadgeBeforeElement(c.id)

\* the position of the first character of line k in the text of the document
RECURSIVE LineStart(_)
LineStart(k) ==
    IF k = 1 THEN 1 ELSE LineStart(k - 1) + Len(Explode(docLines[k - 1])) + 1

\* line k holds a character of the match m of the COMMENTS-DATA block
InLedgerBlock(m, k) ==
    /\ m.found
    /\ LineStart(k) <= m.index + m.length - 1
    /\ LineStart(k) + Len(Explode(docLines[k])) >= m.index

\* C13: once the render of a document has returned, no line of the
\* COMMENTS-DATA block of a ledger that parseCommentsData can read has
\* contributed an element to the markup, and every paragraph line outside the
\* block has its element: the skipping of the ledger suppresses none.
C13_LedgerBlockNeverRendered ==
    pcR = "done" =>
        \A markdown \in { Explode(JoinLines(docLines)) } :
            \A m \in { CommentsBlockMatch(markdown) } :
                \A k \in 1..Len(docLines) :
                    /\ (~comments.isNull /\ InLedgerBlock(m, k))
                           => ~Includes(html, DataLineAttr(k))
                    /\ (~InLedgerBlock(m, k) /\ LineKind(docLines[k]) = "paragraph"
                                             /\ ~isMarkerLine(docLines[k]))
                           => Includes(html, DataLineAttr(k))

\* C15: renderMarkdownWithDiff never raises, whatever the document and the
\* ledger parseCommentsData returned for it.
C15_RenderNeverRaises == pcR # "thrown"

----------------------------------------------------------------------------
(* Properties of the ledger *)

\* v is a Comment record
IsComment(v) ==
    /\ v.t = "obj"
    /\ Member(v, <<"id">>).t = "num"
    /\ Member(v, <<"target">>).t = "obj"
    /\ Member(Member(v, <<"target">>), <<"type">>).t = "str"
    /\ Member(Member(v, <<"target">>), <<"text">>).t = "str"
    /\ Member(v, <<"thread">>).t = "arr"
    /\ Member(v, <<"plan">>).t \in {"null", "obj"}
    /\ Member(v, <<"response">>).t \in {"null", "obj"}

\* C14: parseCommentsData returns null when the text has no COMMENTS-DATA
\* block, when the body of the block is empty or is not JSON, and when the
\* JSON is not an object whose values are all Comment records; otherwise it
\* returns the parsed object.
C14_ParseReturnsLedgerOrNull ==
    pcU = "done" =>
        \A m \in { CommentsBlockMatch(markdownContent) } :
            \A data \in { JSONparse(m.group) } :
                IF /\ m.found /\ m.group # <<>> /\ data.ok /\ data.v.t = "obj"
                   /\ \A i \in 1..Len(data.v.o) : IsComment(data.v.o[i].v)
                THEN parsedData = [isNull |-> FALSE, json |-> data.v]
                ELSE parsedData.isNull

\* C16: a mapping parseCommentsData returned, written as _updateComment
\* writes the block and parsed again, is the same mapping.
C16_LedgerRoundTrip ==
    (pcU = "done" /\ ~parsedData.isNull) =>
        \A again \in { parseCommentsData(CommentsBlock(Stringify(parsedData.json, 0))) } :
            again = parsedData

\* the properties of an object, without the one named key
Others(v, key) == SelectSeq(v.o, LAMBDA m : m.k # key)

\* new is old but for the content of the sub-object type, which keeps its
\* status and editable flag, or is created with them when old has none
OnlyContentChanged(old, new, type, content) ==
    /\ new.t = "obj"
    /\ Others(new, <<type>>) = Others(old, <<type>>)
    /\ Member(new, <<type>>).t = "obj"
    /\ Member(Member(new, <<type>>), <<"content">>) = [t |-> "str", s |-> content]
    /\ IF Member(old, <<type>>).t = "obj"
       THEN Others(Member(new, <<type>>), <<"content">>)
                = Others(Member(old, <<type>>), <<"content">>)
       ELSE /\ Member(Member(new, <<type>>), <<"status">>)
                = [t |-> "str", s |-> <<IF type = "plan" THEN "pending" ELSE "draft">>]
            /\ Member(Member(new, <<type>>), <<"editable">>) = [t |-> "bool", b |-> TRUE]

\* C17: after _updateComment(id, type, content) for a Comment of the ledger
\* and type 'plan' or 'response', the ledger of the document is the ledger it
\* read but for the content of that plan or response (status and editable
\* kept, or created as pending/draft and true), and the text outside the
\* block is the text it read.
C17_UpdateChangesOnlyContent ==
    pcU = "done" =>
        \A old \in { parsedData }, new \in { parseCommentsData(document) },
           mo \in { CommentsBlockMatch(markdownContent) },
           mn \in { CommentsBlockMatch(document) } :
            (/\ ~old.isNull
             /\ IsComment(Member(old.json, Digits(request.commentId)))
             /\ request.type \in {"plan", "response"})
            => /\ ~new.isNull
               /\ Others(new.json, Digits(request.commentId))
                    = Others(old.json, Digits(request.commentId))
               /\ OnlyContentChanged(Member(old.json, Digits(request.commentId)),
                                     Member(new.json, Digits(request.commentId)),
                                     request.type, request.content)
               /\ SubSeq(document, 1, mn.index - 1)
                    = SubSeq(markdownContent, 1, mo.index - 1)
               /\ Drop(document, mn.index + mn.length)
                    = Drop(markdownContent, mo.index + mo.length)

\* the warnings of _updateComment
Warnings == {"Comment not found", "COMMENTS-DATA block not found", "Invalid comment type"}

\* C18: when _updateComment returns from a call with an id the ledger does
\* not hold, on a text without a ledger parseCommentsData reads, or with a
\* type other than 'plan' and 'response', it has shown a warning and the
\* document is the text it read.
C18_MisuseWarnsWithoutEdit ==
    pcU = "done" =>
        ((\/ parsedData.isNull
          \/ Member(parsedData.json, Digits(request.commentId)).t = "undefined"
          \/ request.type \notin {"plan", "response"})
         => (message \in Warnings /\ document = markdownContent))

\* a call for an id the ledger does not hold has returned
C18_Witness ==
    /\ pcU = "done"
    /\ ~parsedData.isNull
    /\ parsedData.json.o # <<>>
    /\ Member(parsedData.json, Digits(request.commentId)).t = "undefined"
    /\ request.type = "plan"
    /\ message = "Comment not found"
    /\ edits = 1

----------------------------------------------------------------------------
(* Properties of the table heuristic *)

\* the '[' at i is not closed before p
OpenAt(s, i, p) ==
    /\ s[i] = "["
    /\ \A j \in (i + 1)..(p - 1) :
          Cardinality({ k \in (i + 1)..j : s[k] = "]" })
            <= Cardinality({ k \in (i + 1)..j : s[k] = "[" })

\* the pipes of s with no open '[' before them
PipesOutsideBrackets(s) ==
    { p \in 1..Len(s) : s[p] = "|" /\ ~\E i \in 1..(p - 1) : OpenAt(s, i, p) }

\* the line is a table row as the heuristic is stated
StatedTableRow(line) ==
    /\ ~ulMatch(Trim(line))
    /\ ~olMatch(Trim(line))
    /\ ~StartsWith(Trim(line), <<">">>)
    /\ \/ StartsWith(Trim(line), <<"|">>)
       \/ Cardinality(PipesOutsideBrackets(Trim(line))) >= 2

----------------------------------------------------------------------------
(* Properties of the merge *)

----------------------------------------------------------------------------
(* Properties of lists *)

\* the number written at position p of h
NumberAt(h, p) == NumberOf(SubSeq(h, p, p + LeadingRun(Drop(h, p), DigitChars) - 1))

\* the positions of h that open or close a list or a list item, ascending
ListMarkup(h) ==
    SelectSeq([k \in 1..Len(h) |-> k],
              LAMBDA k : h[k] \in {"<ul", "<ol", "<li", "</li>", "</ul>", "</ol>"})

\* the line the <li at position p of h declares
LineOfItem(h, p) ==
    NumberAt(h, IF h[p + 1] = " data-line=\"" THEN p + 2 ELSE p + 3)

\* the list items of the markup h met at the positions ps, in order: the
\* line of each <li> and the elements open around it (the line of an <li>,
\* 0 for a list), outermost first
RECURSIVE ListItemsIn(_, _, _, _)
ListItemsIn(h, ps, open, items) ==
    IF ps = <<>> THEN items
    ELSE IF h[Head(ps)] \in {"<ul", "<ol"}
    THEN ListItemsIn(h, Tail(ps), Append(open, 0), items)
    ELSE IF h[Head(ps)] = "<li"
    THEN ListItemsIn(h, Tail(ps), Append(open, LineOfItem(h, Head(ps))),
                     Append(items, [line |-> LineOfItem(h, Head(ps)),
                                    within |-> open]))
    ELSE ListItemsIn(h, Tail(ps), SubSeq(open, 1, Len(open) - 1), items)

\* the list items of the output
RenderedItems == ListItemsIn(html, ListMarkup(html), <<>>, <<>>)

\* line k of the document is a list item
IsItem(k) == ulMatch(docLines[k]) \/ olMatch(docLines[k])

\* lines a to b of the document are items of one list
OneList(a, b) == \A k \in a..b : IsItem(k)

\* indentation of the item on line k
IndentOf(k) == LeadingRun(docLines[k], Spaces)

\* C21: an item indented more than the item before it stands in a nested
\* list inside the <li> of that item, and a later item of the list whose
\* indentation is at most that of the parent stands outside the parent's
\* <li>; items indented 0,0,2,0 give a list of three items whose second
\* holds a nested list with the third source item.
C21_NestedListUnderPredecessor ==
    pcR = "done" =>
        \A items \in { RenderedItems } :
            /\ \A i \in 2..Len(docLines) :
                   (OneList(i - 1, i) /\ IndentOf(i) > IndentOf(i - 1)) =>
                       /\ \E e \in Range(items) :
                              /\ e.line = i
                              /\ Len(e.within) >= 2
                              /\ SubSeq(e.within, Len(e.within) - 1, Len(e.within))
                                     = << i - 1, 0 >>
                       /\ \A j \in (i + 1)..Len(docLines) :
                              (OneList(i, j) /\ IndentOf(j) <= IndentOf(i - 1)) =>
                                  \A e \in Range(items) :
                                      e.line = j => (i - 1) \notin Range(e.within)
            /\ docLines = << Text("- a"), Text("- a"), Text("  - a"), Text("- a") >>
                   => items = << [line |-> 1, within |-> <<0>>],
                                 [line |-> 2, within |-> <<0>>],
                                 [line |-> 3, within |-> <<0, 2, 0>>],
                                 [line |-> 4, within |-> <<0>>] >>

\* the list of items indented 0,0,2,0 has been rendered, the third item
\* inside the second
C21_Witness ==
    /\ pcR = "done"
    /\ docLines = << Text("- a"), Text("- a"), Text("  - a"), Text("- a") >>
    /\ RenderedItems[3].within = <<0, 2, 0>>

----------------------------------------------------------------------------
(* Properties of getGitDiff *)

\* C22: for a file isFileTracked finds untracked getGitDiff returns a
\* FileDiff with isNew true, no hunks, no removed lines and the added lines
\* 1..lineCount; for a tracked file whose diff output (against the base and
\* unstaged) is blank it returns a FileDiff with no added lines, no removed
\* lines and no hunks.
C22_UntrackedAllAddedUnchangedEmpty ==
    pcG = "returned" =>
        /\ isTracked = "no" =>
               /\ ~fileDiff.isNull
               /\ fileDiff.isNew
               /\ fileDiff.hunks = <<>>
               /\ fileDiff.removedLines = EmptyMap
               /\ fileDiff.addedLines = 1..lineCount
        /\ (isTracked = "yes" /\ stdout = "blank" /\ unstagedDiff = "blank") =>
               /\ ~fileDiff.isNull
               /\ fileDiff.addedLines = {}
               /\ fileDiff.removedLines = EmptyMap
               /\ fileDiff.hunks = <<>>

\* getGitDiff has returned for an untracked file of two lines
C22_Witness ==
    /\ pcG = "returned"
    /\ isTracked = "no"
    /\ lineCount = 2
    /\ fileDiff.addedLines = {1, 2}

----------------------------------------------------------------------------
(* Properties of the parser states *)

\* the parser states that are active
ActiveStates ==
    { st \in {"code", "list", "table", "ledger"} :
        \/ st = "code" /\ inCodeBlock
        \/ st = "list" /\ inList
        \/ st = "table" /\ inTable
        \/ st = "ledger" /\ inCommentsDataBlock }

\* C23: after every line at most one of inCodeBlock, inList, inTable and
\* inCommentsDataBlock is active, and list items or table rows are pending
\* only while the list or table state is the active one.
C23_ParserStatesExclusive ==
    pcR \in {"render", "done"} =>
        /\ Cardinality(ActiveStates) <= 1
        /\ listItems # <<>> => ActiveStates = {"list"}
        /\ tableRows # <<>> => ActiveStates = {"table"}

----------------------------------------------------------------------------
(* Properties of code blocks *)

\* the lines of the document that start with the fence
FenceLines == { k \in 1..Len(docLines) : isFence(docLines[k]) }

\* line s opens a code block that line e closes
CodeBlockAt(s, e) ==
    /\ s \in FenceLines
    /\ e \in FenceLines
    /\ s < e
    /\ \A k \in (s + 1)..(e - 1) : k \notin FenceLines
    /\ Cardinality({ k \in FenceLines : k < s }) % 2 = 0

\* the opening of a code-line span for line k
CodeSpanOpen(k, isAdded) ==
    <<"<span">>
    \o (IF isAdded THEN <<" class=\"diff-line added\"">> ELSE <<>>)
    \o DataLineAttr(k) \o <<">">>

\* the positions of the code-line spans that declare line k
CodeSpansOf(k) ==
    Occurrences(html, CodeSpanOpen(k, TRUE)) \cup Occurrences(html, CodeSpanOpen(k, FALSE))

\* C24: for a code block opened at line s and closed at line e, each line
\* k of s+1..e-1 has exactly one span in the output, with data-line k, the
\* escaped text of the line, and the added class exactly when k is in
\* addedLines; an empty block (e = s+1) has no code-line span.
C24_CodeLinesVerbatimOneSpanEach ==
    pcR = "done" =>
        \A s \in FenceLines : \A e \in FenceLines :
            CodeBlockAt(s, e) =>
                /\ \A k \in (s + 1)..(e - 1) :
                       /\ Cardinality(CodeSpansOf(k)) = 1
                       /\ \A p \in CodeSpansOf(k) :
                              MatchAt(html,
                                      CodeSpanOpen(k, k \in diff.addedLines)
                                      \o escapeHtml(docLines[k])
                                      \o <<"</span>", "\n">>, p)
                /\ e = s + 1 => CodeSpansOf(e) = {}

----------------------------------------------------------------------------
(* Properties of tables *)

\* lines a to b of the document are the rows of one table
TableAt(a, b) ==
    /\ a <= b
    /\ \A k \in a..b : isTableRow(docLines[k])
    /\ a = 1 \/ ~isTableRow(docLines[a - 1])
    /\ b = Len(docLines) \/ ~isTableRow(docLines[b + 1])

\* the opening of the row of line k, with or without the per-row class
RowOpen(k, rowAdded) ==
    <<"<tr">> \o (IF rowAdded THEN <<" class=\"diff-row-added\"">> ELSE <<>>)
    \o DataLineAttr(k) \o <<">">>

\* the cell tags that follow the openings of the row of line k
CellTagsOf(k) ==
    UNION { { html[p + Len(RowOpen(k, rowAdded))] :
                p \in Occurrences(html, RowOpen(k, rowAdded)) } :
            rowAdded \in BOOLEAN }

\* the content rows of lines a to b
ContentRows(a, b) == { k \in a..b : ~isSeparatorRow(docLines[k]) }

\* C25: the first row of a table is rendered with th cells if and only if
\* a separator row immediately follows it; without a separator after the
\* first row every row is rendered with td cells.
C25_HeaderCellsIffSeparatorFollows ==
    pcR = "done" =>
        \A a \in 1..Len(docLines) : \A b \in a..Len(docLines) :
            (TableAt(a, b) /\ a \in ContentRows(a, b)) =>
                /\ CellTagsOf(a) = {"<th>"}
                       <=> (a < b /\ isSeparatorRow(docLines[a + 1]))
                /\ ~(a < b /\ isSeparatorRow(docLines[a + 1])) =>
                       \A k \in ContentRows(a, b) : CellTagsOf(k) = {"<td>"}

\* the table of lines a to b stands in the whole-table added wrapper
Wrapped(a) ==
    Includes(html, <<"<div class=\"diff-table-wrapper added\"">> \o DataLineAttr(a)
                   \o <<">", "<table>">>)

\* C26: a table is wrapped in the whole-table added wrapper exactly when it
\* has a content row and the line of every content row is in addedLines,
\* and then no row carries the per-row added class; otherwise exactly the
\* rows whose line is in addedLines carry the per-row added class.
C26_TableWrapperOrRowClass ==
    pcR = "done" =>
        \A a \in 1..Len(docLines) : \A b \in a..Len(docLines) :
            TableAt(a, b) =>
                /\ Wrapped(a) <=> (/\ ContentRows(a, b) # {}
                                   /\ ContentRows(a, b) \subseteq diff.addedLines)
                /\ \A k \in ContentRows(a, b) :
                       /\ Cardinality(Occurrences(html, RowOpen(k, TRUE))
                                      \cup Occurrences(html, RowOpen(k, FALSE))) = 1
                       /\ Includes(html, RowOpen(k, TRUE))
                              <=> (k \in diff.addedLines /\ ~Wrapped(a))

\* a table of two content rows, one of them added, has been rendered
C26_Witness ==
    /\ pcR = "done"
    /\ docLines = << Text("|H|"), Text("|-|"), Text("|H|") >>
    /\ diff.addedLines = {3}
    /\ Includes(html, RowOpen(3, TRUE))
    /\ ~Wrapped(1)

----------------------------------------------------------------------------
(* Properties of the inline grammar *)

\* the content of the paragraph of line k in the output h: what stands
\* between <p data-line="k"> and the next </p>
ParagraphOf(h, k) ==
    SubSeq(h,
           IndexOf(h, <<"<p">> \o DataLineAttr(k) \o <<">">>)
               + Len(<<"<p">> \o DataLineAttr(k) \o <<">">>),
           SetMin({ q \in IndexOf(h, <<"<p">> \o DataLineAttr(k) \o <<">">>)..Len(h) :
                      h[q] = "</p>" }) - 1)

\* the element each construct of the inline grammar is rendered as: the
\* source, the opening of the element and what closes it
InlineGrammar ==
    { [src |-> Text("**b**"), open |-> Text("<strong>"), close |-> Text("</strong>")],
      [src |-> Text("__b__"), open |-> Text("<strong>"), close |-> Text("</strong>")],
      [src |-> Text("*i*"), open |-> Text("<em>"), close |-> Text("</em>")],
      [src |-> Text("_i_"), open |-> Text("<em>"), close |-> Text("</em>")],
      [src |-> Text("~~d~~"), open |-> Text("<del>"), close |-> Text("</del>")],
      [src |-> <<Backtick, "c", Backtick>>, open |-> Text("<code>"),
       close |-> Text("</code>")],
      [src |-> Text("[t](u)"), open |-> Text("<a href=\"u\">"), close |-> Text("</a>")],
      [src |-> Text("![a](u)"), open |-> Text("<img src=\"u\" alt=\"a\" />"),
       close |-> <<>>],
      [src |-> Text("![](u)"), open |-> Text("<img src=\"u\" alt=\"\" />"),
       close |-> <<>>] }

\* C27: every construct of the inline grammar is rendered as its own
\* element: the paragraph of a line that is one construct starts with the
\* opening of that construct's element and ends with its closing, the image
\* ![a](u) being an img element with src u and alt a and the link [t](u)
\* an anchor.
C27_InlineConstructsRendered ==
    pcR = "done" =>
        \A k \in 1..Len(docLines) : \A c \in InlineGrammar :
            docLines[k] = c.src =>
                \A par \in { ParagraphOf(html, k) } :
                    /\ StartsWith(par, c.open)
                    /\ Len(par) >= Len(c.close)
                    /\ SubSeq(par, Len(par) - Len(c.close) + 1, Len(par)) = c.close

\* position p of the markup w lies in text: outside every tag <...>
InText(w, p) == w[p] \notin {"<", ">"} /\ ~InsideTag(w, p)

SpanOpen == Text("<span class=\"plain-text\">")

\* the tag that ends right before the text around position p of w starts,
\* and the tag that starts right after it ends, are open and close
Between(w, p, open, close) ==
    \E a \in 1..p : \E b \in p..Len(w) :
        /\ \A q \in a..b : InText(w, q)
        /\ a > Len(open) /\ SubSeq(w, a - Len(open), a - 1) = open
        /\ MatchAt(w, close, b + 1)

\* position p of w lies inside an element that the inline grammar produced
InElement(w, p) ==
    \E tag \in { "strong", "em", "del", "code", "a" } :
        \E q \in 1..(p - 1) :
            /\ \/ MatchAt(w, <<"<">> \o Text(tag) \o <<">">>, q)
               \/ MatchAt(w, <<"<">> \o Text(tag) \o <<" ">>, q)
            /\ \A r \in q..(p - 1) : ~MatchAt(w, Text("</") \o Text(tag) \o <<">">>, r)

----------------------------------------------------------------------------
(* Properties of the comment markers *)

\* the marker tokens of a line, in order of appearance
MarkersIn(line) == SelectSeq(line, IsMarker)

\* C29: for every line of a rendered document extractCommentMarkers returns
\* one id per marker token of the line, in order of appearance, each the
\* number its token carries; a line that is one token yields one id.
C29_OneIdPerMarker ==
    pcR = "done" =>
        \A k \in 1..Len(docLines) :
            \A ids \in { extractCommentMarkers(docLines[k]) } :
                /\ Len(ids) = Len(MarkersIn(docLines[k]))
                /\ \A j \in 1..Len(ids) :
                       /\ j <= Len(MarkersIn(docLines[k]))
                       /\ MarkerToken(ids[j]) = MarkersIn(docLines[k])[j]
                /\ Len(docLines[k]) = 1 /\ IsMarker(docLines[k][1]) => Len(ids) = 1

----------------------------------------------------------------------------
(* Properties of comment-marker-only changes *)

\* parseDiff reads line, a '+' line inside a hunk
ReadsAddedLine(line) ==
    /\ pc = "scan"
    /\ diffInput' = Append(diffInput, line)
    /\ ~line.hunk
    /\ hunks # <<>>
    /\ StartsWith(line.text, <<"+">>)
    /\ ~StartsWith(line.text, <<"+", "+", "+">>)

\* two lines are the same except for comment markers
SameExceptMarkers(oldLine, newLine) ==
    SelectSeq(oldLine, NotMarker) = SelectSeq(newLine, NotMarker)

\* the type of the change the step pushed
PushedType == hunks'[Len(hunks')].changes[Len(hunks'[Len(hunks')].changes)].type

\* C30: a '+' line is recorded as context, kept out of addedLines and
\* cancels the most recent pending removal if and only if it equals that
\* removal except for comment markers; a '+' line that differs from it in
\* any other character, white space at either end included, is recorded as
\* an addition and the pending removals as removed text.
C30_UnchangedIffSameExceptMarkers ==
    [][ \A line \in MarkerDiffLines :
          ReadsAddedLine(line) =>
              IF /\ pendingRemovals # <<>>
                 /\ SameExceptMarkers(pendingRemovals[Len(pendingRemovals)],
                                      Tail(line.text))
              THEN /\ PushedType = "context"
                   /\ addedLines' = addedLines
                   /\ pendingRemovals'
                          = SubSeq(pendingRemovals, 1, Len(pendingRemovals) - 1)
              ELSE /\ PushedType = "added"
                   /\ addedLines' = addedLines \cup {newLineNumber}
                   /\ pendingRemovals' = <<>>
                   /\ pendingRemovals # <<>> =>
                          /\ removalInsertPoint \in DOMAIN removedLines'
                          /\ removedLines'[removalInsertPoint]
                                 = JoinLines(pendingRemovals) ]_vars

----------------------------------------------------------------------------
(* Properties of the old-file line numbers *)

\* the position in diffInput of the h-th hunk header
HeaderAt(h) ==
    SelectSeq([k \in 1..Len(diffInput) |-> k],
              LAMBDA k : hunkMatch(diffInput[k]))[h]

\* the body lines of the h-th hunk that parseDiff records, in input order
BodyOf(h) ==
    LET from == HeaderAt(h)
        to == IF h < Len(hunks) THEN HeaderAt(h + 1) - 1 ELSE Len(diffInput)
    IN  SelectSeq(SubSeq(diffInput, from + 1, to),
                  LAMBDA l : isAddedLine(l) \/ isRemovedLine(l) \/ isContextLine(l))

\* a line of the old file: a '-' line or a context line
IsOldFileLine(l) == ~isAddedLine(l) /\ (isRemovedLine(l) \/ isContextLine(l))

\* the number of old-file lines among the first n body lines of hunk h
OldLinesBefore(h, n) ==
    Cardinality({ j \in 1..n : IsOldFileLine(BodyOf(h)[j]) })

\* C31: every removed or context DiffChange carries oldLineNumber = the
\* hunk's oldStart + the number of old-file lines ('-' and context lines)
\* that precede it in the same hunk, also after a comment-marker-only
\* change.
C31_OldLineNumberCountsOldLines ==
    \A h \in 1..Len(hunks) :
        /\ Len(hunks[h].changes) = Len(BodyOf(h))
        /\ \A i \in 1..Len(hunks[h].changes) :
              hunks[h].changes[i].type \in {"removed", "context"} =>
                  hunks[h].changes[i].oldLineNumber
                      = hunks[h].oldStart + OldLinesBefore(h, i - 1)

----------------------------------------------------------------------------
(* Properties of flushList *)

\* the positions of the rendered items that declare line k
ItemsOfLine(items, k) == { j \in 1..Len(items) : items[j].line = k }

\* C32: flushList emits every accumulated list item exactly once, one
\* <li data-line=N> per item, for every sequence of item indentations,
\* also when the first item is indented more than a later one.
C32_EveryItemEmittedOnce ==
    pcR = "done" =>
        \A items \in { RenderedItems } :
            \A k \in 1..Len(docLines) :
                IsItem(k) => Cardinality(ItemsOfLine(items, k)) = 1

----------------------------------------------------------------------------
(* Properties of body lines that start with dashes or plus signs *)

\* parseDiff reads line inside a hunk, and line is no hunk header
ReadsBodyLine(line) ==
    /\ pc = "scan"
    /\ diffInput' = Append(diffInput, line)
    /\ ~line.hunk
    /\ hunks # <<>>

\* the step pushed one change onto the current hunk
PushedOne ==
    Len(hunks'[Len(hunks')].changes) = Len(hunks[Len(hunks)].changes) + 1

\* C33: inside a hunk every body line that starts with '-' is recorded as
\* a removal and every body line that starts with '+' as an addition (or
\* comment-only context), and the counters advance for it, also when the
\* line's own content starts with '--' or '++'; only the file-header lines
\* before the first hunk are ignored.
C33_DashAndPlusBodyLinesRecorded ==
    [][ \A line \in RuleDiffLines :
          ReadsBodyLine(line) =>
              /\ StartsWith(line.text, <<"-">>) =>
                     /\ PushedOne
                     /\ PushedType = "removed"
                     /\ oldLineNumber' = oldLineNumber + 1
              /\ StartsWith(line.text, <<"+">>) =>
                     /\ PushedOne
                     /\ PushedType \in {"added", "context"}
                     /\ newLineNumber' = newLineNumber + 1 ]_vars

----------------------------------------------------------------------------
(* Properties of the removed text *)

\* the removed changes whose content is c
RemovedChangesOf(c) ==
    { p \in ChangePositions :
        ChangeAt(p).type = "removed" /\ ChangeAt(p).content = c }

\* the context changes made from a '+' line that cancelled a pending
\* removal of content c
CancellationsOf(c) ==
    { p \in ChangePositions :
        /\ ChangeAt(p).type = "context"
        /\ isAddedLine(BodyOf(p[1])[p[2]])
        /\ ChangeAt(p).content = stripCommentMarkers(c) }

\* the places <<key, line>> of the removedLines values that hold c
RecordingsOf(c) ==
    UNION { { <<k, j>> : j \in { i \in 1..Len(SplitOn(removedLines[k], "\n")) :
                                   SplitOn(removedLines[k], "\n")[i] = c } } :
            k \in DOMAIN removedLines }

\* every removed change that was not cancelled has its content in exactly
\* one removedLines value
RemovedTextKept ==
    \A c \in { ChangeAt(p).content :
                 p \in { q \in ChangePositions : ChangeAt(q).type = "removed" } } :
        Cardinality(RecordingsOf(c))
            = Cardinality(RemovedChangesOf(c)) - Cardinality(CancellationsOf(c))

\* C34: parseDiff loses no removed text: every removed DiffChange that no
\* comment-marker-only re-addition cancelled has its content in exactly one
\* removedLines value when parseDiff returns, and no flush, within a hunk
\* or at a hunk header, overwrites a removedLines entry.
C34_NoRemovedTextLost ==
    [][ /\ \A k \in DOMAIN removedLines :
               k \in DOMAIN removedLines' /\ removedLines'[k] = removedLines[k]
        /\ pc' = "done" => RemovedTextKept' ]_vars

----------------------------------------------------------------------------
(* Properties of the end of the render *)

\* renderMarkdownWithDiff leaves its loop and returns
RenderReturns == pcR = "render" /\ pcR' = "done"

\* the markup h holds the list item of line k
HoldsItem(h, k) ==
    \/ Includes(h, <<"<li">> \o DataLineAttr(k))
    \/ Includes(h, <<"<li", " class=\"diff-line added\"">> \o DataLineAttr(k))

\* the markup h holds the table row of line k
HoldsRow(h, k) == Includes(h, RowOpen(k, TRUE)) \/ Includes(h, RowOpen(k, FALSE))

\* the markup h holds the code line text of line k
HoldsCodeLine(h, k, text) ==
    \E isAdded \in BOOLEAN :
        Includes(h, CodeSpanOpen(k, isAdded) \o escapeHtml(text) \o <<"</span>">>)

\* C35: when renderMarkdownWithDiff returns, every accumulated construct
\* has been emitted: the items of a pending list, the rows of a pending
\* table, and the captured lines of a fenced code block that was never
\* closed all appear in the returned HTML.
C35_PendingConstructsEmitted ==
    [][ RenderReturns =>
          /\ inList =>
                 \A j \in 1..Len(listItems) :
                     HoldsItem(html', listItems[j].lineNumber)
          /\ inTable =>
                 \A j \in 1..Len(tableRows) :
                     ~isSeparatorRow(tableRows[j].line) =>
                         HoldsRow(html', tableRows[j].lineNumber)
          /\ (inCodeBlock /\ codeBlockContent # <<>>) =>
                 \A captured \in { SplitOn(codeBlockContent, "\n") } :
                     \A j \in 1..Len(captured) :
                         HoldsCodeLine(html', codeBlockStartLine + j, captured[j])
      ]_vars

----------------------------------------------------------------------------
(* Properties of extractNewFileContent *)

\* the lines of a text, none for the empty text
LinesOfText(text) == IF text = <<>> THEN <<>> ELSE SplitOn(text, "\n")

\* the added and context changes of the hunk, in order
NewFileChanges ==
    SelectSeq(hunks[1].changes, LAMBDA c : c.type \in {"added", "context"})

\* C36: for a diff of a single hunk whose new start is 1 and that holds no
\* comment markers, line k of extractNewFileContent is the content of the
\* added or context DiffChange that parseDiff records with lineNumber k,
\* and the two have the same number of lines.
C36_ExtractedLinesAreTheNewFileChanges ==
    (pc = "done" /\ Len(hunks) = 1) =>
        \A content \in { LinesOfText(extractNewFileContent(diffInput)) } :
            /\ Len(NewFileChanges) = Len(content)
            /\ \A k \in 1..Len(NewFileChanges) :
                   /\ NewFileChanges[k].lineNumber = k
                   /\ k <= Len(content) => NewFileChanges[k].content = content[k]

----------------------------------------------------------------------------
(* Properties of concurrent edits *)

\* how often the typed text stands in a document
TypedIn(text) == Cardinality({ p \in 1..Len(text) : text[p] = Typed })

\* _updateComment resumes after its import and returns
UpdateResumes == pcU = "imported" /\ pcU' = "done"

\* C37: _updateComment never overwrites a concurrent edit: what was typed
\* into the document between the moment _updateComment read it and the
\* moment its replace edit is applied is still in the document afterwards.
C37_ConcurrentEditKept ==
    [][ UpdateResumes => TypedIn(document') = TypedIn(document) ]_vars

----------------------------------------------------------------------------
(* Properties of concurrent _update calls *)

\* no _update call is in flight
NoUpdateInFlight == \A n \in 1..Len(updates) : updates[n].pc = "done"

\* C38: when several _update calls are in flight at once, an earlier,
\* slower call never overwrites the HTML of a later one, and the HTML left
\* in the webview once all calls have finished is the one computed by the
\* most recently started call.
C38_LatestUpdateWins ==
    [][ /\ webviewHtml'.by >= webviewHtml.by
        /\ NoUpdateInFlight' => webviewHtml'.by = Len(updates') ]_vars

----------------------------------------------------------------------------
(* Properties of buildNestedList *)

\* a call returns to its caller, which continues past at least one item
ReturnConsumes ==
    (Len(frames') = Len(frames) - 1 /\ frames' # <<>>) =>
        frames'[Len(frames')].i > frames[Len(frames')].i

\* an iteration that makes no call moves to the next item
IterationConsumes ==
    (Len(frames') = Len(frames) /\ frames' # frames) =>
        frames'[Len(frames')].i = frames[Len(frames)].i + 1

\* a call starts at an item of its own level, which its first iteration
\* adds
CallConsumes ==
    Len(frames') = Len(frames) + 1 =>
        /\ frames'[Len(frames')].startIdx <= Len(indents)
        /\ indents[frames'[Len(frames')].startIdx]
               = frames'[Len(frames')].currentIndent

\* C39: buildNestedList terminates for every finite list of items and
\* every assignment of indentations: each loop iteration and each
\* recursive call consumes at least one item, so the index strictly
\* increases until the list is exhausted or a shallower item is met.
C39_BuildNestedListTerminates ==
    /\ <>(pcL = "returned")
    /\ [][ReturnConsumes /\ IterationConsumes /\ CallConsumes]_vars

\* the outermost call has returned for a list whose third item is deeper
\* than the level that meets it
C39_Witness ==
    /\ pcL = "returned"
    /\ indents = << 0, 2, 1, 0 >>
    /\ endIdx = 5

====
